---- MODULE Spec2Model ----
(***************************************************************************)
(* Model of the clg-toolkit backend (backend/server.js and                 *)
(* backend/controllers/pdfController.js): the request handlers compress,   *)
(* pdfToWord, split, organise, merge, imageToPdf, validate, rotate and     *)
(* updateMetadata, the temp directory they write to, its cleanup timer     *)
(* and the external processes started with child_process.exec.             *)
(*                                                                         *)
(* Strings that the code parses (form fields) are sequences of one-        *)
(* character strings, so that Number(), parseInt(), split(), trim() and    *)
(* includes() are computed character by character as JavaScript does.      *)
(* JavaScript numbers are records [k, v, d]: k is one of "num", "nan",     *)
(* "inf", "-inf", and a finite number is the fraction v / d with d a power *)
(* of ten, so that NaN, the infinities and decimal fractions compare as    *)
(* they do in JavaScript.                                                  *)
(*                                                                         *)
(* A handler is followed await by await: one action for each file-system   *)
(* operation it waits for, together with the code next to it that reads    *)
(* and writes no file (pdf-lib's load and save work in memory), and one    *)
(* for each callback of an external process.  The cleanup timer, the       *)
(* clock and the external processes take their steps in between.           *)
(***************************************************************************)
EXTENDS Integers, Sequences, FiniteSets, Bags, TLC

\* ------------------------------------------------------------------ bounds

\* Largest file size (bytes, scaled) of an upload, a candidate or a resave.
MaxSize == 2

\* Largest page count of an uploaded document.
MaxPages == 3

\* Longest pages / pageOrder form field.
MaxSpecLen == 4

\* Most files of one upload.array('files') request.
MaxFiles == 3

\* Last minute of the clock.
MaxTime == 6

\* Most files stored while the cleanup is followed.
MaxStored == 3

\* Most entries of the rotations object of a rotate request.
MaxKeys == 2

\* Most requests that wait at an await while the handler of another runs.
MaxWaiting == 2

\* Most cleanup passes that run at a time: a pass runs for less than that
\* many minutes.
MaxPasses == 2

\* ------------------------------------------------- JavaScript numbers

\* Largest magnitude and largest power-of-ten denominator a number of the
\* model holds; JavaScript's doubles go further, the integers of the model
\* checker do not.  A literal beyond them is held at the limit.
NumLimit == 1000000000

\* A finite number is the fraction v / d, d a power of ten, in lowest terms
\* of ten (d = 1 for an integer).
Num(n) == [k |-> "num", v |-> n, d |-> 1]

NaN == [k |-> "nan", v |-> 0, d |-> 1]

Infinity == [k |-> "inf", v |-> 0, d |-> 1]

\* The fraction n / d, d a power of ten, in lowest terms of ten.
RECURSIVE Ratio(_, _)
Ratio(n, d) ==
    IF d > 1 /\ n % 10 = 0 THEN Ratio(n \div 10, d \div 10)
    ELSE [k |-> "num", v |-> n, d |-> d]

\* a < b on JavaScript numbers; on finite numbers the integer parts first,
\* then the fractional parts brought to the larger denominator.
JsLt(a, b) ==
    LET fa == a.v \div a.d
        fb == b.v \div b.d
        ra == a.v % a.d
        rb == b.v % b.d
        FiniteLt == IF fa # fb THEN fa < fb
                    ELSE IF a.d <= b.d THEN ra * (b.d \div a.d) < rb
                    ELSE ra < rb * (a.d \div b.d)
    IN  /\ a.k # "nan"
        /\ b.k # "nan"
        /\ a.k # b.k \/ a.k = "num"
        /\ a.k # "inf"
        /\ b.k # "-inf"
        /\ (a.k = "num" /\ b.k = "num") => FiniteLt

\* a <= b on JavaScript numbers.
JsLe(a, b) ==
    /\ a.k # "nan"
    /\ b.k # "nan"
    /\ (JsLt(a, b) \/ a = b)

\* a > b on JavaScript numbers.
JsGt(a, b) == JsLt(b, a)

\* a >= b on JavaScript numbers.
JsGe(a, b) == JsLe(b, a)

\* ------------------------------------------------- JavaScript strings

\* The value of c as a digit, 16 when it is none.
DigitVal(c) ==
    LET lower == <<"0", "1", "2", "3", "4", "5", "6", "7", "8", "9",
                   "a", "b", "c", "d", "e", "f">>
        upper == <<"A", "B", "C", "D", "E", "F">>
    IN  IF \E i \in 1..Len(lower) : lower[i] = c
        THEN (CHOOSE i \in 1..Len(lower) : lower[i] = c) - 1
        ELSE IF \E i \in 1..Len(upper) : upper[i] = c
        THEN (CHOOSE i \in 1..Len(upper) : upper[i] = c) + 9
        ELSE 16

\* White space and line terminators, as trim(), parseInt() and Number()
\* skip them: space, tab, line feed, carriage return, form feed, vertical
\* tab, no-break space, byte order mark, the space separators of Unicode
\* and its line and paragraph separators.  A character that has no escape
\* in a string is written as its code point, "U+000B" for the vertical tab.
IsSpace(c) ==
    c \in {" ", "\t", "\n", "\r", "\f", "U+000B", "U+00A0", "U+FEFF",
           "U+1680", "U+2000", "U+2001", "U+2002", "U+2003", "U+2004",
           "U+2005", "U+2006", "U+2007", "U+2008", "U+2009", "U+200A",
           "U+2028", "U+2029", "U+202F", "U+205F", "U+3000"}

RECURSIVE TrimStart(_)
TrimStart(s) ==
    IF s # <<>> /\ IsSpace(Head(s)) THEN TrimStart(Tail(s)) ELSE s

RECURSIVE TrimEnd(_)
TrimEnd(s) ==
    IF s # <<>> /\ IsSpace(s[Len(s)])
    THEN TrimEnd(SubSeq(s, 1, Len(s) - 1))
    ELSE s

\* String.prototype.trim
Trim(s) == TrimEnd(TrimStart(s))

\* Length of the longest prefix of s made of digits of the radix.
RECURSIVE PrefixLen(_, _)
PrefixLen(s, radix) ==
    IF s # <<>> /\ DigitVal(Head(s)) < radix
    THEN 1 + PrefixLen(Tail(s), radix)
    ELSE 0

\* Value of a sequence of digits of the radix, held at NumLimit.
RadixValue(s, radix) ==
    LET upTo[i \in 0..Len(s)] ==
            IF i = 0 THEN 0
            ELSE IF upTo[i - 1] >= NumLimit \div radix THEN NumLimit
            ELSE upTo[i - 1] * radix + DigitVal(s[i])
    IN  IF upTo[Len(s)] > NumLimit THEN NumLimit ELSE upTo[Len(s)]

IsSign(c) == c = "-" \/ c = "+"

\* s starts with "0" and one of the two letters.
HasPrefix(s, lower, upper) ==
    Len(s) >= 2 /\ s[1] = "0" /\ (s[2] = lower \/ s[2] = upper)

\* parseInt(s) with no radix: leading white space is skipped, an optional
\* sign is read, then after "0x" or "0X" the longest run of hexadecimal
\* digits, otherwise the longest run of decimal digits; NaN when that run is
\* empty.  Whatever follows is ignored.
ParseInt(s) ==
    LET t     == TrimStart(s)
        neg   == t # <<>> /\ Head(t) = "-"
        body  == IF t # <<>> /\ IsSign(Head(t)) THEN Tail(t) ELSE t
        hex   == HasPrefix(body, "x", "X")
        radix == IF hex THEN 16 ELSE 10
        run   == IF hex THEN SubSeq(body, 3, Len(body)) ELSE body
        n     == PrefixLen(run, radix)
        val   == RadixValue(SubSeq(run, 1, n), radix)
    IN  IF n = 0 THEN NaN ELSE Num(IF neg THEN 0 - val ELSE val)

\* mantissa * 10^scale for a mantissa given by its digits: an integer, or a
\* fraction for a negative scale; leading zeros carry no value, digits
\* beyond the ninth significant one are dropped and the magnitude is held at
\* NumLimit.
RECURSIVE Scaled(_, _)
Scaled(digits, scale) ==
    LET Pow10[n \in 0..9] == IF n = 0 THEN 1 ELSE 10 * Pow10[n - 1]
        zeros == CHOOSE z \in 0..Len(digits) :
                     /\ \A i \in 1..z : digits[i] = "0"
                     /\ z < Len(digits) => digits[z + 1] # "0"
        m     == SubSeq(digits, zeros + 1, Len(digits))
    IN  IF m = <<>> THEN Num(0)
        ELSE IF Len(m) > 9 THEN Scaled(SubSeq(m, 1, Len(m) - 1), scale + 1)
        ELSE IF scale >= 0
        THEN IF Len(m) + scale > 9 THEN Num(NumLimit)
             ELSE Num(RadixValue(m, 10) * Pow10[scale])
        ELSE IF 0 - scale > 9 THEN Scaled(SubSeq(m, 1, Len(m) - 1), scale + 1)
             ELSE Ratio(RadixValue(m, 10), Pow10[0 - scale])

\* StrUnsignedDecimalLiteral: "Infinity", or digits with an optional
\* fraction ("1", "1.", "1.5", ".5") and an optional exponent part
\* ("e3", "E+3", "e-3"); anything else is NaN.
UnsignedDecimal(s) ==
    LET Value(digits, n2, hasExp, expNeg, expDigs, rest2) ==
            LET expOk  == /\ expDigs # <<>>
                          /\ PrefixLen(expDigs, 10) = Len(expDigs)
                expVal == IF RadixValue(expDigs, 10) > 400 THEN 400
                          ELSE RadixValue(expDigs, 10)
                exp    == IF ~hasExp THEN 0
                          ELSE IF expNeg THEN 0 - expVal ELSE expVal
            IN  IF digits = <<>> THEN NaN
                ELSE IF hasExp /\ ~expOk THEN NaN
                ELSE IF ~hasExp /\ rest2 # <<>> THEN NaN
                ELSE Scaled(digits, exp - n2)
        Exponent(digits, n2, rest2) ==
            LET hasExp == /\ rest2 # <<>>
                          /\ (Head(rest2) = "e" \/ Head(rest2) = "E")
                afterE == IF hasExp THEN Tail(rest2) ELSE rest2
            IN  Value(digits, n2, hasExp,
                      afterE # <<>> /\ Head(afterE) = "-",
                      IF afterE # <<>> /\ IsSign(Head(afterE))
                      THEN Tail(afterE) ELSE afterE,
                      rest2)
        Fraction(int, rest1) ==
            LET hasDot  == rest1 # <<>> /\ Head(rest1) = "."
                afterPt == IF hasDot THEN Tail(rest1) ELSE rest1
                n2      == IF hasDot THEN PrefixLen(afterPt, 10) ELSE 0
            IN  Exponent(int \o SubSeq(afterPt, 1, n2), n2,
                         SubSeq(afterPt, n2 + 1, Len(afterPt)))
        n1 == PrefixLen(s, 10)
    IN  IF s = <<"I", "n", "f", "i", "n", "i", "t", "y">> THEN Infinity
        ELSE Fraction(SubSeq(s, 1, n1), SubSeq(s, n1 + 1, Len(s)))

\* Number(s), the conversion the relational operators apply to a string
\* operand (StringToNumber): white space around the literal is dropped; the
\* empty string is 0; "0x", "0o" and "0b" literals take no sign and need at
\* least one digit, all of the radix; a decimal literal takes an optional
\* sign; anything else is NaN.
ToNumber(s) ==
    LET Prefixed(run, radix) ==
            IF run # <<>> /\ PrefixLen(run, radix) = Len(run)
            THEN Num(RadixValue(run, radix))
            ELSE NaN
        Signed(neg, x) ==
            IF ~neg THEN x
            ELSE IF x.k = "num" THEN [x EXCEPT !.v = 0 - x.v]
            ELSE IF x.k = "inf" THEN [k |-> "-inf", v |-> 0, d |-> 1]
            ELSE x
        Literal(t) ==
            IF t = <<>> THEN Num(0)
            ELSE IF HasPrefix(t, "x", "X") THEN Prefixed(Tail(Tail(t)), 16)
            ELSE IF HasPrefix(t, "o", "O") THEN Prefixed(Tail(Tail(t)), 8)
            ELSE IF HasPrefix(t, "b", "B") THEN Prefixed(Tail(Tail(t)), 2)
            ELSE Signed(Head(t) = "-",
                        UnsignedDecimal(IF IsSign(Head(t)) THEN Tail(t) ELSE t))
    IN  Literal(Trim(s))

\* A form field of req.body: absent (undefined) or a string.
Absent == [present |-> FALSE, text |-> <<>>]

Field(s) == [present |-> TRUE, text |-> s]

\* Variant: the field tested as the number it stands for.
Truthy_numeric(f) ==
    /\ f.present
    /\ ToNumber(f.text).k = "num"
    /\ ToNumber(f.text).v # 0

\* Truthiness of a form field: undefined and "" are falsy, every other
\* string is truthy ("0" included).
Truthy(f) == f.present /\ f.text # <<>>

\* ------------------------------------------------------------ variables

VARIABLES
    pc,         \* position of the request handler
    req,        \* the request: operation, req.file, req.body
    res,        \* the response sent, status 0 while none is sent
    files,      \* the temp directory: name -> entry
    mem,        \* what the handler holds: the path and the document it writes
                \* and the number of files read
    probeIdx,   \* checkGsCommand: index of the command being probed
    probed,     \* the commands probed so far
    gsCmd,      \* the binary found by checkGsCommand
    presetIdx,  \* index of the preset being tried
    invoked,    \* the tool runs started so far (presets, soffice), with their outcome
    bestPath,   \* compress: bestPath
    bestSize,   \* compress: bestSize
    pageIndices, \* split / organise: the indices handed to copyPages
    now,        \* Date.now(), in minutes since the server started
    issued,     \* the number of unique names given to stored files so far
    sweep,      \* the cleanup passes: position, now, the entries left
    served,     \* the answers of the requests served before: url and bytes
    waiting     \* the bag of requests not yet answered that wait meanwhile

vars == <<pc, req, res, files, mem, probeIdx, probed, gsCmd, presetIdx,
          invoked, bestPath, bestSize, pageIndices, now, issued, sweep, served,
          waiting>>

\* The clock, the cleanup timer, the requests served before and those
\* that wait, which the handlers of one request do not write.
storeVars == <<now, issued, sweep, served, waiting>>

\* The locals of compress.
gsVars == <<probeIdx, probed, gsCmd, presetIdx, invoked, bestPath, bestSize>>

\* ------------------------------------------------------- temp directory

\* The document information dictionary of a document without one.
NoInfo ==
    [title |-> <<>>, author |-> <<>>, subject |-> <<>>, keywords |-> <<>>,
     producer |-> ""]

\* A document written to the temp directory: where its bytes come from, its
\* size, its page sequence, the /Rotate entry of each page, its information
\* dictionary and its modification time, the time of the write.
DocFile(data, size, pages, rotate, info) ==
    [data |-> data, size |-> size, pages |-> pages, rotate |-> rotate,
     info |-> info, mtime |-> now]

\* A file of the temp directory: where its bytes come from, its size and,
\* for a document, its page sequence (pages unrotated, no information).
File(data, size, pages) ==
    DocFile(data, size, pages, [k \in 1..Len(pages) |-> 0], NoInfo)

WriteFile(dir, name, file) ==
    [n \in (DOMAIN dir) \cup {name} |-> IF n = name THEN file ELSE dir[n]]

RemoveFile(dir, name) == [n \in (DOMAIN dir) \ {name} |-> dir[n]]

\* fs.move(src, dst, {overwrite: true}) and fs.rename(src, dst) inside the
\* temp directory: a rename, the file keeps its modification time.
MoveFile(dir, src, dst) == RemoveFile(WriteFile(dir, dst, dir[src]), src)

\* uuidv4(): the i-th unique token issued
Token(i) == "uuid" \o ToString(i)

\* multer's filename, `${uuidv4()}_${file.originalname}`, of the upload that
\* was given token t
UploadNameFor(t) == <<Token(t), "in.pdf">>

\* req.file.filename of the request being handled
UploadName == UploadNameFor(req.token)

\* req.files[i - 1].filename of the request being handled, multer's
\* filename of a file of upload.array('files'): the files of one request
\* are given consecutive tokens
UploadNameOf(i) == <<Token(req.token + i - 1), "in">>

NoPath == <<>>

\* The directory pdfToWord has soffice write to, TEMP_DIR/docx_out, as an
\* entry of the temp directory.
DocxOut == <<"docx_out">>

\* fs.remove(path.join(TEMP_DIR, name)): a directory goes with what it
\* holds (the entries inside docx_out); nothing happens when the entry is
\* not there.
RemoveEntry(dir, name) ==
    LET inDocxOut == {n \in DOMAIN dir : n[1] = "docx_out/"}
    IN  IF name = DocxOut
        THEN [n \in (DOMAIN dir) \ ({DocxOut} \cup inDocxOut) |-> dir[n]]
        ELSE RemoveFile(dir, name)

\* The modification time of docx_out, when there, set to now: an entry was
\* added to it or taken from it.
Touched(dir) ==
    IF DocxOut \in DOMAIN dir
    THEN [dir EXCEPT ![DocxOut] = [@ EXCEPT !.mtime = now]]
    ELSE dir

NoResponse ==
    [status |-> 0, url |-> NoPath, size |-> 0, originalSize |-> 0,
     warning |-> FALSE, error |-> "", pageCount |-> 0, verdict |-> ""]

\* req.file with the fields of req.body read by the single-file handlers,
\* and req.files (docs) for the handlers of upload.array('files'); token is
\* the token of the (first) file stored for the request and stored the
\* number of the files of req.files multer has written so far.
NoRequest ==
    [op |-> "none", token |-> 0, stored |-> 0, hasFile |-> FALSE, size |-> 0,
     loadable |-> FALSE,
     pageCount |-> 0, targetSize |-> Absent, pages |-> Absent,
     docs |-> <<>>, encrypted |-> FALSE, rotate |-> <<>>,
     info |-> NoInfo, rotations |-> [kind |-> "absent", entries |-> <<>>],
     title |-> Absent, author |-> Absent, subject |-> Absent,
     keywords |-> Absent, filename |-> NoPath, rollNo |-> Absent,
     type |-> Absent, date |-> Absent]

\* No cleanup pass: the callback of the timer does not run.
NoPass ==
    [pc |-> "idle", fired |-> 0, now |-> 0, todo |-> {}, deleted |-> {},
     failed |-> {}, visiting |-> NoPath, age |-> 0]

\* The handler holds nothing.
NoMem ==
    [path |-> NoPath, size |-> 0, read |-> 0,
     doc |-> [data |-> "none", size |-> 0, pages |-> <<>>, rotate |-> <<>>,
              info |-> NoInfo, mtime |-> 0]]

\* The handler holds the bytes it writes to path; read counts the files of
\* req.files the loop of merge or imageToPdf has read so far.
Holding(path, doc) ==
    [path |-> path, size |-> doc.size, read |-> 0, doc |-> doc]

Init ==
    /\ pc = "idle"
    /\ req = NoRequest
    /\ res = NoResponse
    /\ files = <<>>
    /\ mem = NoMem
    /\ probeIdx = 0
    /\ probed = <<>>
    /\ gsCmd = ""
    /\ presetIdx = 0
    /\ invoked = <<>>
    /\ bestPath = NoPath
    /\ bestSize = Infinity
    /\ pageIndices = <<>>
    /\ now = 0
    /\ issued = 0
    /\ sweep = [i \in 1..MaxPasses |-> NoPass]
    /\ served = {}
    /\ waiting = EmptyBag

\* ------------------------------------------------------------- responses

\* res.json({url, filename, size, originalSize, warning?})
Ok(url, size, originalSize, warning) ==
    [status |-> 200, url |-> url, size |-> size, originalSize |-> originalSize,
     warning |-> warning, error |-> "", pageCount |-> 0, verdict |-> ""]

\* res.status(code).json({error})
Err(code, error) ==
    [status |-> code, url |-> NoPath, size |-> 0, originalSize |-> 0,
     warning |-> FALSE, error |-> error, pageCount |-> 0, verdict |-> ""]

\* res.json({url, filename, size, pageCount})
OkPages(url, size, pageCount) ==
    [Ok(url, size, 0, FALSE) EXCEPT !.pageCount = pageCount]

\* res.json({status, ...}) of validate: HTTP 200 with a verdict
OkVerdict(verdict, pageCount, size) ==
    [Ok(NoPath, size, 0, FALSE) EXCEPT !.verdict = verdict,
                                       !.pageCount = pageCount]

\* ------------------------------------------------------------- requests

Sizes == 0..MaxSize

\* The targetSize form fields tried: "", "0", "1", "2", " 2", "1e1", "0x2",
\* "1.5", "Infinity", "-1", "a" and "2" after a byte order mark.
TargetTexts ==
    {<<>>, <<"0">>, <<"1">>, <<"2">>, <<" ", "2">>, <<"U+FEFF", "2">>,
     <<"1", "e", "1">>,
     <<"0", "x", "2">>, <<"1", ".", "5">>,
     <<"I", "n", "f", "i", "n", "i", "t", "y">>, <<"-", "1">>, <<"a">>}

\* multer's upload.single('file') followed by the route's handler: the
\* upload, if any, is stored in the temp directory under a unique name of
\* its own.
Upload(op, hasFile, size, loadable, pageCount, targetSize, pages) ==
    /\ pc = "idle"
    /\ issued < MaxStored
    /\ req' = [NoRequest EXCEPT !.op = op, !.hasFile = hasFile,
                   !.token = IF hasFile THEN issued + 1 ELSE 0,
                   !.size = size, !.loadable = loadable,
                   !.pageCount = pageCount, !.targetSize = targetSize,
                   !.pages = pages]
    /\ files' = IF hasFile
                THEN WriteFile(files, UploadNameFor(issued + 1),
                               File("upload", size, [i \in 1..pageCount |-> i]))
                ELSE files
    /\ issued' = IF hasFile THEN issued + 1 ELSE issued
    /\ pc' = "received"
    /\ UNCHANGED <<now, sweep, served, res, mem, gsVars, pageIndices, waiting>>

\* POST /api/compress
UploadCompress ==
    /\ pc = "idle"
    /\ \E hasFile \in BOOLEAN, size \in Sizes, loadable \in BOOLEAN,
          targetSize \in {Absent} \cup {Field(t) : t \in TargetTexts} :
        /\ (~hasFile => size = 0 /\ ~loadable)
        /\ Upload("compress", hasFile, size, loadable, 0, targetSize, Absent)

\* POST /api/pdf-to-word; the handler never reads the upload or its size,
\* and an upload of one size is followed.
UploadWord ==
    /\ pc = "idle"
    /\ \E hasFile \in BOOLEAN :
        Upload("pdfToWord", hasFile, IF hasFile THEN 1 ELSE 0, TRUE, 0,
               Absent, Absent)

\* ------------------------------------------- steps shared by the handlers

\* What follows the last await fs.readFile of a handler, up to
\* await pdfDoc.save(): the document is loaded and built in memory, the
\* handler holds the bytes to write to path and no file has changed.
Saves(path, doc) ==
    /\ mem' = Holding(path, doc)
    /\ pc' = "saved"
    /\ res' = res
    /\ files' = files

\* await fs.writeFile(outputPath, bytes), its first half, in the fallback
\* of compress and in merge, imageToPdf, updateMetadata, split, organise
\* and rotate: the output file is opened, created or emptied, whether the
\* files read before are still there or not.
OpensOutput ==
    /\ pc = "saved"
    /\ files' = WriteFile(files, mem.path, File("", 0, <<>>))
    /\ pc' = "writing"
    /\ UNCHANGED <<storeVars, req, res, mem, gsVars, pageIndices>>

\* The handler answers and holds nothing any more.
Answers(response) ==
    /\ res' = response
    /\ mem' = NoMem
    /\ pc' = "done"

\* await fs.writeFile(outputPath, bytes), its second half, in the fallback
\* of compress and in merge, imageToPdf, updateMetadata, split, organise and
\* rotate: the bytes are in the file. A file unlinked while it was written
\* does not come back.
WriteCompletes ==
    /\ pc = "writing"
    /\ files' = IF mem.path \in DOMAIN files
                THEN WriteFile(files, mem.path, [mem.doc EXCEPT !.mtime = now])
                ELSE files
    /\ pc' = "written"
    /\ UNCHANGED <<storeVars, req, res, mem, gsVars, pageIndices>>

\* stats = await fs.stat(outputPath) and the answer: the success descriptor
\* (given but for its size) with the size read, or the failure of the
\* handler's catch when the file is no longer there.
StatAnswers(success, failure) ==
    /\ pc = "written"
    /\ IF mem.path \in DOMAIN files
       THEN Answers([success EXCEPT !.size = files[mem.path].size])
       ELSE Answers(failure)
    /\ UNCHANGED <<storeVars, req, files, gsVars, pageIndices>>

\* ------------------------------------------------------------- compress

Presets == <<"/prepress", "/printer", "/ebook", "/screen">>

\* Variant: the commands tried in the opposite order.
Commands_reversed == <<"gs", "gswin32c", "gswin64c">>

Commands == <<"gswin64c", "gswin32c", "gs">>

\* Variant: another preset as the default.
DefaultPreset_screen == "/screen"

\* compressWithPreset('/ebook', defaultPath)

DefaultPreset == "/ebook"

\* path.join(TEMP_DIR, `compressed_${req.file.filename}`)
OutputPath == <<"compressed_">> \o UploadName

\* path.join(TEMP_DIR, `comp_${preset.slice(1)}_${uuidv4()}.pdf`): the
\* token is one no other name has
StepOutputPath(preset) == <<"comp_", preset, Token(req.token), ".pdf">>

\* Variant: a strict comparison.
SkipCompression_strict(size, targetSize) ==
    Truthy(targetSize) /\ JsLt(Num(size), ToNumber(targetSize.text))

\* targetSize && req.file.size <= targetSize
SkipCompression(size, targetSize) ==
    Truthy(targetSize) /\ JsLe(Num(size), ToNumber(targetSize.text))

\* Variant: a strict comparison.
MeetsTarget_strict(size, targetSize) ==
    JsLt(Num(size), ToNumber(targetSize.text))

\* size <= targetSize
MeetsTarget(size, targetSize) == JsLe(Num(size), ToNumber(targetSize.text))

\* Variant: the comparison inverted.
IsNewBest_inverted(size, best) == JsLt(best, Num(size))

\* size < bestSize
IsNewBest(size, best) == JsLt(Num(size), best)

\* Variant: the test inverted.
NoCandidate_inverted(path) == path # NoPath

\* !bestPath
NoCandidate(path) == path = NoPath

\* An invocation of an external process, as started.
Running(preset) == [preset |-> preset, state |-> "running", size |-> 0]

\* The last invocation of the log with its state and the size read.
Settle(log, state, size) ==
    [log EXCEPT ![Len(log)] =
        [preset |-> log[Len(log)].preset, state |-> state, size |-> size]]

\* The path the invocation under way writes to: stepOutputPath, or
\* defaultPath, path.join(TEMP_DIR, `comp_${uuidv4()}.pdf`).
OutPath == IF presetIdx = 0 THEN <<"comp_", Token(req.token), ".pdf">>
           ELSE StepOutputPath(Presets[presetIdx])

\* compress, up to its first await: the input check, the copy of the skip
\* branch (which rejects when the upload is no longer there), or the start
\* of checkGsCommand.
CompressBegin ==
    /\ pc = "received"
    /\ req.op = "compress"
    /\ IF ~req.hasFile
       THEN /\ Answers(Err(400, "No file uploaded"))
            /\ UNCHANGED <<files, probeIdx, probed>>
       ELSE IF SkipCompression(req.size, req.targetSize)
       THEN IF UploadName \in DOMAIN files
            THEN /\ files' = WriteFile(files, OutputPath,
                                       [files[UploadName] EXCEPT !.mtime = now])
                 /\ pc' = "copied"
                 /\ UNCHANGED <<res, mem, probeIdx, probed>>
            ELSE /\ Answers(Err(500, "Server error during compression"))
                 /\ UNCHANGED <<files, probeIdx, probed>>
       ELSE /\ probeIdx' = 1
            /\ probed' = <<Commands[1]>>
            /\ pc' = "probe"
            /\ UNCHANGED <<files, res, mem>>
    /\ UNCHANGED <<storeVars, req, gsCmd, presetIdx, invoked, bestPath, bestSize,
                   pageIndices>>

\* The skip branch after its copy: the descriptor with the size of the
\* upload.
SkipAnswers ==
    /\ pc = "copied"
    /\ Answers(Ok(OutputPath, req.size, req.size, FALSE))
    /\ UNCHANGED <<storeVars, req, files, gsVars, pageIndices>>

\* checkGsCommand: `${cmd} --version` exits with an error, another command
\* is left to try.
ProbeFailsNext ==
    /\ pc = "probe"
    /\ probeIdx < Len(Commands)
    /\ probeIdx' = probeIdx + 1
    /\ probed' = Append(probed, Commands[probeIdx + 1])
    /\ UNCHANGED <<storeVars, pc, req, res, files, mem, gsCmd, presetIdx,
                   invoked, bestPath, bestSize, pageIndices>>

\* Variant: the descriptor without its warning.
FallbackOk_silent(url, size, originalSize) ==
    Ok(url, size, originalSize, FALSE)

\* The fallback's success descriptor.
FallbackOk(url, size, originalSize) == Ok(url, size, originalSize, TRUE)

\* The answer of the fallback's catch.
FallbackFailed ==
    Err(500, "Compression failed (and Ghostscript is not installed).")

\* checkGsCommand: the last command fails too, gsCmd is null: fallback mode,
\* the upload read with fs.readFile, then loaded and saved with pdf-lib; a
\* read or a load that fails is answered by the fallback's catch.
ProbeFailsFallback(resavedSize) ==
    /\ pc = "probe"
    /\ probeIdx = Len(Commands)
    /\ IF UploadName \in DOMAIN files /\ req.loadable
       THEN Saves(OutputPath, File("resaved", resavedSize, <<>>))
       ELSE /\ Answers(FallbackFailed)
            /\ files' = files
    /\ UNCHANGED <<storeVars, req, gsVars, pageIndices>>

\* The fallback: finalStats = await fs.stat(outputPath) and the answer.
FallbackAnswers ==
    /\ req.op = "compress"
    /\ StatAnswers(FallbackOk(OutputPath, 0, req.size),
                   FallbackFailed)

\* checkGsCommand finds a binary: Ghostscript mode starts, with the first
\* preset of the list when targetSize is truthy, with the default one
\* otherwise.
ProbeSucceeds ==
    /\ pc = "probe"
    /\ gsCmd' = Commands[probeIdx]
    /\ IF Truthy(req.targetSize)
       THEN /\ presetIdx' = 1
            /\ invoked' = <<Running(Presets[1])>>
            /\ pc' = "gs"
       ELSE /\ presetIdx' = 0
            /\ invoked' = <<Running(DefaultPreset)>>
            /\ pc' = "gsDefault"
    /\ UNCHANGED <<storeVars, req, res, files, mem, probeIdx, probed, bestPath,
                   bestSize, pageIndices>>

\* Ghostscript, while it runs, writes its output file (-sOutputFile), with
\* whatever it exits afterwards.
GsWrites(size) ==
    /\ pc \in {"gs", "gsDefault"}
    /\ OutPath \notin DOMAIN files
    /\ files' = WriteFile(files, OutPath,
                          File(invoked[Len(invoked)].preset, size, <<>>))
    /\ UNCHANGED <<storeVars, pc, req, res, mem, gsVars, pageIndices>>

\* The search is over with path as bestPath: no candidate, or the move of
\* bestPath to outputPath is started.
EndSearch(path) ==
    IF NoCandidate(path)
    THEN /\ res' = Err(500, "Could not compress file")
         /\ pc' = "done"
    ELSE /\ res' = res
         /\ pc' = "move"

\* The greedy search loop goes on after the turn of a preset, log being the
\* invocations with that turn settled and path bestPath: the exec of the
\* next preset, or the end of the search.
Advance(log, path) ==
    IF presetIdx < Len(Presets)
    THEN /\ presetIdx' = presetIdx + 1
         /\ invoked' = Append(log, Running(Presets[presetIdx + 1]))
         /\ pc' = "gs"
         /\ res' = res
    ELSE /\ presetIdx' = presetIdx
         /\ invoked' = log
         /\ EndSearch(path)

\* The exec callback of the preset being tried: an error, or an output file
\* that does not exist, rejects, which the loop only logs; with an output
\* file the callback goes on to read its size.
PresetReturns(error) ==
    /\ pc = "gs"
    /\ IF ~error /\ OutPath \in DOMAIN files
       THEN /\ pc' = "gsStat"
            /\ UNCHANGED <<res, presetIdx, invoked>>
       ELSE Advance(Settle(invoked, "failed", 0), bestPath)
    /\ UNCHANGED <<storeVars, req, files, mem, probeIdx, probed, gsCmd,
                   bestPath, bestSize, pageIndices>>

\* stats = await fs.stat(outPath) in the callback of a preset, and the turn
\* of the loop with the size: the target met, a new best (the previous best
\* is removed first), or an attempt to discard.  When the stat rejects, the
\* callback, an async function nobody awaits, rejects: the promise of
\* compressWithPreset is never settled and the request is never answered
\* ("hung"), or the unhandled rejection ends the process ("crashed", the
\* default from Node 15 on).
PresetStat ==
    /\ pc = "gsStat"
    /\ presetIdx > 0
    /\ IF OutPath \notin DOMAIN files
       THEN /\ pc' \in {"hung", "crashed"}
            /\ UNCHANGED <<res, mem, presetIdx, invoked, bestPath, bestSize>>
       ELSE LET size == files[OutPath].size
                log  == Settle(invoked, "ok", size)
            IN  IF MeetsTarget(size, req.targetSize)
                THEN /\ bestPath' = OutPath
                     /\ bestSize' = Num(size)
                     /\ invoked' = log
                     /\ pc' = "move"
                     /\ UNCHANGED <<res, mem, presetIdx>>
                ELSE IF IsNewBest(size, bestSize) /\ bestPath = NoPath
                THEN /\ bestPath' = OutPath
                     /\ bestSize' = Num(size)
                     /\ mem' = mem
                     /\ Advance(log, OutPath)
                ELSE /\ mem' = [NoMem EXCEPT
                                    !.path = IF IsNewBest(size, bestSize)
                                             THEN bestPath ELSE OutPath,
                                    !.size = size]
                     /\ invoked' = log
                     /\ pc' = "gsRemove"
                     /\ UNCHANGED <<res, presetIdx, bestPath, bestSize>>
    /\ UNCHANGED <<storeVars, req, files, probeIdx, probed, gsCmd, pageIndices>>

\* await fs.remove(bestPath) or await fs.remove(stepOutputPath) completes
\* (a path that is not there is no error); after the removal of the
\* previous best the attempt is the new best. The loop goes on.
PresetRemoves ==
    /\ pc = "gsRemove"
    /\ files' = RemoveFile(files, mem.path)
    /\ LET path == IF mem.path = OutPath THEN bestPath ELSE OutPath
       IN  /\ bestPath' = path
           /\ bestSize' = IF mem.path = OutPath THEN bestSize
                          ELSE Num(mem.size)
           /\ Advance(invoked, path)
    /\ mem' = NoMem
    /\ UNCHANGED <<storeVars, req, probeIdx, probed, gsCmd, pageIndices>>

\* The default strategy: the exec callback of the single default preset; a
\* rejection is logged and leaves no candidate.
DefaultReturns(error) ==
    /\ pc = "gsDefault"
    /\ IF ~error /\ OutPath \in DOMAIN files
       THEN /\ pc' = "gsStat"
            /\ UNCHANGED <<res, invoked>>
       ELSE /\ invoked' = Settle(invoked, "failed", 0)
            /\ EndSearch(bestPath)
    /\ UNCHANGED <<storeVars, req, files, mem, probeIdx, probed, gsCmd,
                   presetIdx, bestPath, bestSize, pageIndices>>

\* stats = await fs.stat(outPath) in the callback of the default preset:
\* compressWithPreset resolves and defaultPath becomes bestPath.
DefaultStat ==
    /\ pc = "gsStat"
    /\ presetIdx = 0
    /\ IF OutPath \notin DOMAIN files
       THEN /\ pc' \in {"hung", "crashed"}
            /\ UNCHANGED <<invoked, bestPath>>
       ELSE /\ invoked' = Settle(invoked, "ok", files[OutPath].size)
            /\ bestPath' = OutPath
            /\ pc' = "gsBest"
    /\ UNCHANGED <<storeVars, req, res, files, mem, probeIdx, probed, gsCmd,
                   presetIdx, bestSize, pageIndices>>

\* bestSize = (await fs.stat(defaultPath)).size: a stat that rejects is
\* logged, bestPath stays set.
DefaultBest ==
    /\ pc = "gsBest"
    /\ bestSize' = IF bestPath \in DOMAIN files
                   THEN Num(files[bestPath].size)
                   ELSE bestSize
    /\ pc' = "move"
    /\ UNCHANGED <<storeVars, req, res, files, mem, probeIdx, probed, gsCmd,
                   presetIdx, invoked, bestPath, pageIndices>>

\* await fs.move(bestPath, outputPath, { overwrite: true }): a move that
\* rejects is answered by the handler's outer catch.
Finish ==
    /\ pc = "move"
    /\ IF bestPath \in DOMAIN files
       THEN /\ files' = MoveFile(files, bestPath, OutputPath)
            /\ pc' = "moved"
            /\ UNCHANGED <<res, mem>>
       ELSE /\ files' = files
            /\ Answers(Err(500, "Server error during compression"))
    /\ UNCHANGED <<storeVars, req, gsVars, pageIndices>>

\* finalStats = await fs.stat(outputPath) and the success descriptor.
CompressAnswers ==
    /\ pc = "moved"
    /\ req.op = "compress"
    /\ IF OutputPath \in DOMAIN files
       THEN Answers(Ok(OutputPath, files[OutputPath].size, req.size, FALSE))
       ELSE Answers(Err(500, "Server error during compression"))
    /\ UNCHANGED <<storeVars, req, files, gsVars, pageIndices>>

\* ------------------------------------------------------------ pdfToWord

\* `${path.parse(req.file.filename).name}.docx`
ExpectedName == <<Token(req.token), "in.docx">>

\* path.join(outputDir, expectedName), outputDir = TEMP_DIR/docx_out
ExpectedOutputPath == <<"docx_out/">> \o ExpectedName

\* fs.ensureDir(outputDir): the directory is made when it is not there
EnsureDir(dir) ==
    IF DocxOut \in DOMAIN dir THEN dir
    ELSE WriteFile(dir, DocxOut, File("dir", 0, <<>>))

\* pdfToWord up to its first await: the input check and
\* fs.ensureDir(outputDir).
WordBegin ==
    /\ pc = "received"
    /\ req.op = "pdfToWord"
    /\ IF ~req.hasFile
       THEN /\ Answers(Err(400, "No file uploaded"))
            /\ files' = files
       ELSE /\ files' = EnsureDir(files)
            /\ pc' = "ensured"
            /\ UNCHANGED <<res, mem>>
    /\ UNCHANGED <<storeVars, req, gsVars, pageIndices>>

\* exec(cmd, ...): soffice is started.
SofficeStarts ==
    /\ pc = "ensured"
    /\ invoked' = <<Running("soffice")>>
    /\ pc' = "soffice"
    /\ UNCHANGED <<storeVars, req, res, files, mem, probeIdx, probed, gsCmd,
                   presetIdx, bestPath, bestSize, pageIndices>>

\* soffice, while it runs, writes the converted file to --outdir, which it
\* makes when it is not there; with whatever it exits afterwards.
SofficeWrites(size) ==
    /\ pc = "soffice"
    /\ ExpectedOutputPath \notin DOMAIN files
    /\ files' = WriteFile(Touched(EnsureDir(files)), ExpectedOutputPath,
                          File("docx", size, <<>>))
    /\ UNCHANGED <<storeVars, pc, req, res, mem, gsVars, pageIndices>>

\* Variant: the promise rejected when soffice reports an error.
Resolves_strict(error) == ~error

\* exec(cmd, (error, stdout, stderr) => ...): the promise is resolved whether
\* or not soffice reports an error.
Resolves(error) == TRUE

\* The answer of pdfToWord's catch.
WordFailed ==
    Err(500, "Conversion failed. Service might be busy or file is too complex.")

\* The exec callback of soffice: an error is only logged; what follows
\* depends on whether the expected output file exists
\* (await fs.pathExists(expectedOutputPath)).
SofficeReturns(error) ==
    /\ pc = "soffice"
    /\ IF Resolves(error) /\ ExpectedOutputPath \in DOMAIN files
       THEN /\ pc' = "wordStat"
            /\ UNCHANGED <<res, mem>>
       ELSE Answers(WordFailed)
    /\ invoked' = Settle(invoked, IF error THEN "failed" ELSE "ok",
                         IF ExpectedOutputPath \in DOMAIN files
                         THEN files[ExpectedOutputPath].size ELSE 0)
    /\ UNCHANGED <<storeVars, req, files, probeIdx, probed, gsCmd, presetIdx,
                   bestPath, bestSize, pageIndices>>

\* stats = await fs.stat(expectedOutputPath): a stat that rejects is
\* answered by the handler's catch.
WordStat ==
    /\ pc = "wordStat"
    /\ IF ExpectedOutputPath \in DOMAIN files
       THEN /\ mem' = [NoMem EXCEPT !.path = ExpectedName,
                                    !.size = files[ExpectedOutputPath].size]
            /\ pc' = "wordMove"
            /\ res' = res
       ELSE Answers(WordFailed)
    /\ UNCHANGED <<storeVars, req, files, gsVars, pageIndices>>

\* await fs.move(expectedOutputPath, finalPath, { overwrite: true }): the
\* file leaves docx_out for the temp directory; a move that rejects is
\* answered by the handler's catch.
WordMoves ==
    /\ pc = "wordMove"
    /\ IF ExpectedOutputPath \in DOMAIN files
       THEN /\ files' = Touched(MoveFile(files, ExpectedOutputPath,
                                         ExpectedName))
            /\ pc' = "wordMoved"
            /\ UNCHANGED <<res, mem>>
       ELSE /\ files' = files
            /\ Answers(WordFailed)
    /\ UNCHANGED <<storeVars, req, gsVars, pageIndices>>

\* The descriptor of pdfToWord, with the size read before the move.
WordAnswers ==
    /\ pc = "wordMoved"
    /\ Answers(Ok(ExpectedName, mem.size, 0, FALSE))
    /\ UNCHANGED <<storeVars, req, files, gsVars, pageIndices>>

\* ---------------------------------------------------- split and organise

\* The pages / pageOrder fields tried: absent, every string of up to
\* MaxSpecLen of the characters chars, and besides "5,1-3", "1-3,2",
\* "2-1,1", "3,1-2", "2,1,2" and, with white space other than the space,
\* "1,<tab>2", "<newline>2", "1<carriage return>-<form feed>2",
\* "<vertical tab>2", "1<no-break space>,2" and
\* "1<line separator>-<ideographic space>2".
PageFields ==
    LET chars == {"0", "1", "2", "-", ",", " ", "a"}
        long == {<<"5", ",", "1", "-", "3">>, <<"1", "-", "3", ",", "2">>,
                 <<"2", "-", "1", ",", "1">>, <<"3", ",", "1", "-", "2">>,
                 <<"2", ",", "1", ",", "2">>,
                 <<"1", ",", "\t", "2">>, <<"\n", "2">>,
                 <<"1", "\r", "-", "\f", "2">>,
                 <<"U+000B", "2">>, <<"1", "U+00A0", ",", "2">>,
                 <<"1", "U+2028", "-", "U+3000", "2">>}
    IN  {Absent}
        \cup {Field(t) : t \in UNION {[1..n -> chars] : n \in 0..MaxSpecLen}}
        \cup {Field(t) : t \in long}

\* POST /api/split and POST /api/organise
UploadPages ==
    /\ pc = "idle"
    /\ \E op \in {"split", "organise"}, hasFile \in BOOLEAN,
          loadable \in BOOLEAN, pageCount \in 0..MaxPages, pages \in PageFields :
        /\ (~hasFile => ~loadable)
        /\ (~loadable => pageCount = 0)
        /\ Upload(op, hasFile, IF hasFile THEN MaxSize ELSE 0, loadable,
                  pageCount, Absent, pages)

\* String.prototype.includes, for a one-character argument
Includes(s, c) == \E i \in 1..Len(s) : s[i] = c

\* String.prototype.split, for a one-character separator
RECURSIVE SplitBy(_, _)
SplitBy(s, c) ==
    IF ~Includes(s, c) THEN <<s>>
    ELSE LET first == CHOOSE i \in 1..Len(s) :
                          s[i] = c /\ \A j \in 1..(i - 1) : s[j] # c
         IN  <<SubSeq(s, 1, first - 1)>>
             \o SplitBy(SubSeq(s, first + 1, Len(s)), c)

\* Variant: the lower bound off by one.
InRange_fromZero(n, totalPages) == JsGe(n, Num(0)) /\ JsLe(n, Num(totalPages))

\* pageNum >= 1 && pageNum <= totalPages
InRange(n, totalPages) == JsGe(n, Num(1)) /\ JsLe(n, Num(totalPages))

\* Variant: a range that reaches outside the document contributes nothing.
RangeLoop_whole(start, end, totalPages) ==
    LET loop[i \in Int] ==
            IF ~JsLe(Num(i), end) THEN <<>>
            ELSE <<i - 1>> \o loop[i + 1]
    IN  IF InRange(Num(start), totalPages) /\ InRange(end, totalPages)
        THEN loop[start]
        ELSE <<>>

\* for (let i = start; i <= end; i++) if (in range) pageIndices.push(i - 1)
RangeLoop(start, end, totalPages) ==
    LET loop[i \in Int] ==
            IF ~JsLe(Num(i), end) THEN <<>>
            ELSE (IF InRange(Num(i), totalPages) THEN <<i - 1>> ELSE <<>>)
                 \o loop[i + 1]
    IN  loop[start]

\* The indices one part of the pages field of split contributes.
SplitPart(part, totalPages) ==
    IF Includes(part, "-")
    THEN LET bounds == SplitBy(part, "-")
             start  == ParseInt(Trim(bounds[1]))
             end    == ParseInt(Trim(bounds[2]))
         IN  IF JsGt(start, end) \/ start.k # "num"
             THEN <<>>
             ELSE RangeLoop(start.v, end, totalPages)
    ELSE LET pageNum == ParseInt(Trim(part))
         IN  IF InRange(pageNum, totalPages) THEN <<pageNum.v - 1>> ELSE <<>>

\* Variant: the loop over the parts left at the first part that contributes
\* no page.
RECURSIVE SplitParts_break(_, _)
SplitParts_break(parts, totalPages) ==
    IF parts = <<>> \/ SplitPart(Head(parts), totalPages) = <<>> THEN <<>>
    ELSE SplitPart(Head(parts), totalPages)
         \o SplitParts_break(Tail(parts), totalPages)

\* for (const part of parts) { ... }
RECURSIVE SplitParts(_, _)
SplitParts(parts, totalPages) ==
    IF parts = <<>> THEN <<>>
    ELSE SplitPart(Head(parts), totalPages) \o SplitParts(Tail(parts), totalPages)

\* split: pageIndices as built from the pages field
SplitIndices(pages, totalPages) == SplitParts(SplitBy(pages, ","), totalPages)

\* for (const pageNum of orderParts) if (in range) pageIndices.push(pageNum - 1)
RECURSIVE OrganiseParts(_, _)
OrganiseParts(parts, totalPages) ==
    IF parts = <<>> THEN <<>>
    ELSE LET pageNum == ParseInt(Trim(Head(parts)))
         IN  (IF InRange(pageNum, totalPages) THEN <<pageNum.v - 1>> ELSE <<>>)
             \o OrganiseParts(Tail(parts), totalPages)

\* Variant: a page listed again is dropped.
OrganiseIndices_unique(pageOrder, totalPages) ==
    LET all == OrganiseParts(SplitBy(pageOrder, ","), totalPages)
        keep[i \in 0..Len(all)] ==
            IF i = 0 THEN <<>>
            ELSE IF \E j \in 1..(i - 1) : all[j] = all[i] THEN keep[i - 1]
            ELSE Append(keep[i - 1], all[i])
    IN  keep[Len(all)]

\* organise: pageIndices as built from the pageOrder field
OrganiseIndices(pageOrder, totalPages) ==
    OrganiseParts(SplitBy(pageOrder, ","), totalPages)

\* path.join(TEMP_DIR, `split_${req.file.filename}`)
SplitOutputPath == <<"split_">> \o UploadName

\* path.join(TEMP_DIR, `organised_${req.file.filename}`)
OrganiseOutputPath == <<"organised_">> \o UploadName

\* Variant: an empty selection is let through.
NothingResolved_never(indices) == FALSE

\* pageIndices.length === 0
NothingResolved(indices) == Len(indices) = 0

\* The body shared by split and organise up to the bytes of the new
\* document: the input checks, fs.readFile of the upload, its load, the
\* page indices, copyPages (which throws on an index that is no page of
\* the source) and the save of the new document.
ExtractPages(indices, outputPath, emptyError, failure, outSize) ==
    /\ pc = "received"
    /\ IF ~req.hasFile
       THEN /\ Answers(Err(400, "No file uploaded"))
            /\ UNCHANGED <<files, pageIndices>>
       ELSE IF ~Truthy(req.pages)
       THEN /\ Answers(Err(400, IF req.op = "split" THEN "Page range required"
                                                    ELSE "Page order required"))
            /\ UNCHANGED <<files, pageIndices>>
       ELSE IF UploadName \notin DOMAIN files \/ ~req.loadable
       THEN /\ Answers(Err(500, failure))
            /\ UNCHANGED <<files, pageIndices>>
       ELSE /\ pageIndices' = indices
            /\ IF NothingResolved(pageIndices')
               THEN /\ Answers(Err(400, emptyError))
                    /\ files' = files
               ELSE IF \E k \in 1..Len(pageIndices') :
                          pageIndices'[k] + 1 \notin 1..req.pageCount
               THEN /\ Answers(Err(500, failure))
                    /\ files' = files
               ELSE Saves(outputPath,
                        File(req.op, outSize,
                             [k \in 1..Len(pageIndices') |->
                                  files[UploadName].pages[pageIndices'[k] + 1]]))
    /\ UNCHANGED <<storeVars, req, gsVars>>

\* exports.split, up to the new document saved
Split(outSize) ==
    /\ req.op = "split"
    /\ ExtractPages(SplitIndices(req.pages.text, req.pageCount),
                    SplitOutputPath, "No valid pages selected",
                    "Failed to split PDF", outSize)

\* split: stats = await fs.stat(outputPath) and the answer
SplitAnswers ==
    /\ req.op = "split"
    /\ StatAnswers(Ok(SplitOutputPath, 0, req.size, FALSE),
                   Err(500, "Failed to split PDF"))

\* exports.organise, up to the new document saved
Organise(outSize) ==
    /\ req.op = "organise"
    /\ ExtractPages(OrganiseIndices(req.pages.text, req.pageCount),
                    OrganiseOutputPath, "Invalid page order",
                    "Failed to organise PDF", outSize)

\* organise: stats = await fs.stat(outputPath) and the answer
OrganiseAnswers ==
    /\ req.op = "organise"
    /\ StatAnswers(Ok(OrganiseOutputPath, 0, req.size, FALSE),
                   Err(500, "Failed to organise PDF"))

\* ----------------------------------------------- merge and imageToPdf

\* The k-th page of the doc-th file of a request (doc 0: the single file).
PageOf(doc, k) == doc * (MaxPages + 1) + k

\* One file of req.files: whether PDFDocument.load takes it and its page
\* count (merge), its mimetype and whether embedJpg / embedPng takes its
\* bytes (imageToPdf).
Doc(loadable, pageCount, mimetype, embeds) ==
    [loadable |-> loadable, pageCount |-> pageCount, mimetype |-> mimetype,
     embeds |-> embeds]

\* The sequences of up to MaxFiles elements of S.
SeqsUpTo(S) == UNION {[1..n -> S] : n \in 0..MaxFiles}

\* multer's upload.array('files'): a request with the file parts docs
\* arrives. multer makes a unique name for every part and writes the parts
\* to the temp directory one after the other, as they come in; the
\* route's handler is called after the last, or at once when there is none.
UploadMany(op, docs) ==
    /\ pc = "idle"
    /\ issued + Len(docs) <= MaxStored
    /\ req' = [NoRequest EXCEPT !.op = op, !.docs = docs,
                   !.token = IF docs = <<>> THEN 0 ELSE issued + 1]
    /\ issued' = issued + Len(docs)
    /\ pc' = IF docs = <<>> THEN "received" ELSE "storing"
    /\ UNCHANGED <<files, now, sweep, served, res, mem, gsVars, pageIndices,
                   waiting>>

\* multer writes the next file part of the request to the temp directory;
\* the clock, the cleanup and other requests have their turns between two
\* parts. After the last part the route's handler is called.
StoresPart ==
    /\ pc = "storing"
    /\ LET i == req.stored + 1
       IN  /\ files' = WriteFile(files, UploadNameOf(i),
                             File("upload", 1,
                                  [k \in 1..req.docs[i].pageCount |->
                                      PageOf(i, k)]))
           /\ req' = [req EXCEPT !.stored = i]
           /\ pc' = IF i = Len(req.docs) THEN "received" ELSE "storing"
    /\ UNCHANGED <<storeVars, res, mem, gsVars, pageIndices>>

\* POST /api/merge
UploadMerge ==
    /\ pc = "idle"
    /\ LET pdfDocs == {Doc(FALSE, 0, "application/pdf", FALSE)}
                      \cup {Doc(TRUE, n, "application/pdf", FALSE) :
                                n \in 0..MaxPages}
       IN  \E docs \in SeqsUpTo(pdfDocs) : UploadMany("merge", docs)

\* POST /api/image-to-pdf
UploadImages ==
    /\ pc = "idle"
    /\ LET mimetypes == {"image/jpeg", "image/jpg", "image/png", "image/gif"}
           imageDocs == {Doc(FALSE, 0, m, e) : m \in mimetypes, e \in BOOLEAN}
       IN  \E docs \in SeqsUpTo(imageDocs) : UploadMany("imageToPdf", docs)

\* doc.save(): the pages of the document written; a document saved without
\* any page is given one blank page, page 0 (pdf-lib's addDefaultPage).
SaveDoc(pages) == IF pages = <<>> THEN <<0>> ELSE pages

\* Variant: the pages copied put before the ones already merged.
MergePages_prepend(merged, copied) == copied \o merged

\* copyPages(pdf, pdf.getPageIndices()) and
\* copiedPages.forEach(page => mergedPdf.addPage(page)): the pages of the
\* merged document after those of one more file were copied into it.
MergePages(merged, copied) == merged \o copied

\* path.join(TEMP_DIR, `merged_${uuidv4()}.pdf`): the token is one no other
\* name has
MergedPath == <<"merged_", Token(req.token), ".pdf">>

\* exports.merge, one file of req.files per step: the length check, then
\* for the next file fs.readFile, PDFDocument.load, copyPages and addPage,
\* and after the last file the save of the merged document. A read or a
\* load that throws is answered by the handler's catch.
Merge(outSize) ==
    /\ pc \in {"received", "reading"}
    /\ req.op = "merge"
    /\ IF Len(req.docs) < 2
       THEN /\ Answers(Err(400, "At least 2 files required"))
            /\ files' = files
       ELSE LET i == mem.read + 1
            IN  IF \/ UploadNameOf(i) \notin DOMAIN files
                   \/ ~req.docs[i].loadable
                THEN /\ Answers(Err(500, "Merge failed"))
                     /\ files' = files
                ELSE IF i < Len(req.docs)
                THEN /\ mem' = [Holding(MergedPath,
                                    File("merge", 0,
                                         MergePages(mem.doc.pages,
                                             files[UploadNameOf(i)].pages)))
                                   EXCEPT !.read = i]
                     /\ pc' = "reading"
                     /\ res' = res
                     /\ files' = files
                ELSE Saves(MergedPath,
                         File("merge", outSize,
                              SaveDoc(MergePages(mem.doc.pages,
                                          files[UploadNameOf(i)].pages))))
    /\ UNCHANGED <<storeVars, req, gsVars, pageIndices>>

\* merge: stats = await fs.stat(outputPath) and the answer, with the page
\* count of the document saved
MergeAnswers ==
    /\ req.op = "merge"
    /\ StatAnswers(OkPages(MergedPath, 0, Len(mem.doc.pages)),
                   Err(500, "Merge failed"))

\* path.join(TEMP_DIR, `converted_${uuidv4()}.pdf`): the token is one no
\* other name has
ConvertedPath == <<"converted_", Token(req.token), ".pdf">>

\* exports.imageToPdf, one file of req.files per step: the length check,
\* then for the next file fs.readFile and, for a JPEG or a PNG mimetype,
\* embedJpg / embedPng and a page of its own (a file of another mimetype
\* is read and skipped), and after the last file the save of the document.
\* A read or an embed that throws is answered by the handler's catch.
ImageToPdf(outSize) ==
    /\ pc \in {"received", "reading"}
    /\ req.op = "imageToPdf"
    /\ IF Len(req.docs) = 0
       THEN /\ Answers(Err(400, "No images uploaded"))
            /\ files' = files
       ELSE LET i == mem.read + 1
                embedded == req.docs[i].mimetype
                                \in {"image/jpeg", "image/jpg", "image/png"}
                pages == mem.doc.pages
                         \o (IF embedded THEN <<PageOf(i, 1)>> ELSE <<>>)
            IN  IF \/ UploadNameOf(i) \notin DOMAIN files
                   \/ (embedded /\ ~req.docs[i].embeds)
                THEN /\ Answers(Err(500, "Image conversion failed"))
                     /\ files' = files
                ELSE IF i < Len(req.docs)
                THEN /\ mem' = [Holding(ConvertedPath,
                                        File("imageToPdf", 0, pages))
                                   EXCEPT !.read = i]
                     /\ pc' = "reading"
                     /\ res' = res
                     /\ files' = files
                ELSE Saves(ConvertedPath,
                           File("imageToPdf", outSize, SaveDoc(pages)))
    /\ UNCHANGED <<storeVars, req, gsVars, pageIndices>>

\* imageToPdf: stats = await fs.stat(outputPath) and the answer, with the
\* page count of the document saved
ImageAnswers ==
    /\ req.op = "imageToPdf"
    /\ StatAnswers(OkPages(ConvertedPath, 0, Len(mem.doc.pages)),
                   Err(500, "Image conversion failed"))

\* ------------------------------------------------------------- validate

\* 5 * 1024 * 1024
RiskyThreshold == 5 * 1024 * 1024

\* POST /api/validate: a single file, which may not load and may be
\* encrypted; the sizes tried are 1 and those around the threshold.
UploadValidate ==
    /\ pc = "idle"
    /\ issued < MaxStored
    /\ \E hasFile \in BOOLEAN, loadable \in BOOLEAN, encrypted \in BOOLEAN,
          pageCount \in 1..MaxPages,
          size \in {1, RiskyThreshold - 1, RiskyThreshold, RiskyThreshold + 1} :
        /\ (~hasFile => size = 1 /\ ~loadable)
        /\ (~loadable => pageCount = 1 /\ ~encrypted)
        /\ req' = [NoRequest EXCEPT !.op = "validate", !.hasFile = hasFile,
                       !.token = IF hasFile THEN issued + 1 ELSE 0,
                       !.size = size, !.loadable = loadable,
                       !.encrypted = encrypted, !.pageCount = pageCount]
        /\ files' = IF hasFile
                    THEN WriteFile(files, UploadNameFor(issued + 1),
                             File("upload", size,
                                  [k \in 1..pageCount |-> PageOf(0, k)]))
                    ELSE files
        /\ issued' = IF hasFile THEN issued + 1 ELSE issued
        /\ pc' = "received"
        /\ UNCHANGED <<now, sweep, served, res, mem, gsVars, pageIndices,
                       waiting>>

\* Variant: a file of exactly the threshold is risky.
IsRisky_inclusive(size) == size >= RiskyThreshold

\* size > 5 * 1024 * 1024
IsRisky(size) == size > RiskyThreshold

\* exports.validate: a read that rejects is answered by the handler's
\* catch, a load that throws by the verdict INVALID.
Validate ==
    /\ pc = "received"
    /\ req.op = "validate"
    /\ Answers(IF ~req.hasFile THEN Err(400, "No file uploaded")
               ELSE IF UploadName \notin DOMAIN files
               THEN Err(500, "Validation failed")
               ELSE IF ~req.loadable THEN OkVerdict("INVALID", 0, 0)
               ELSE IF req.encrypted THEN OkVerdict("INVALID", 0, 0)
               ELSE OkVerdict(IF IsRisky(req.size) THEN "RISKY" ELSE "READY",
                              req.pageCount, req.size))
    /\ UNCHANGED <<storeVars, req, files, gsVars, pageIndices>>

\* --------------------------------------------------------------- rotate

\* req.body.rotations: undefined, "", a string JSON.parse throws on, or the
\* JSON text of an object, given by its entries (key -> value); the keys
\* tried are "0", "1", "2", "01" and "a", the values "90", "-90", "180" and
\* "a", in objects of up to MaxKeys entries.
RotationFields ==
    LET keys == {<<"0">>, <<"1">>, <<"2">>, <<"0", "1">>, <<"a">>}
        values == {<<"9", "0">>, <<"-", "9", "0">>, <<"1", "8", "0">>, <<"a">>}
    IN  {[kind |-> k, entries |-> <<>>] : k \in {"absent", "empty", "invalid"}}
        \cup {[kind |-> "object", entries |-> e] :
                  e \in UNION {[K -> values] :
                                   K \in {S \in SUBSET keys :
                                             Cardinality(S) <= MaxKeys}}}

\* POST /api/rotate; the pages of the document uploaded have a /Rotate
\* entry of 0 or 270.
UploadRotate ==
    /\ pc = "idle"
    /\ issued < MaxStored
    /\ \E hasFile \in BOOLEAN, loadable \in BOOLEAN, pageCount \in 1..MaxPages,
          rotations \in RotationFields :
        /\ (~hasFile => ~loadable)
        /\ (~loadable => pageCount = 1)
        /\ \E rotate \in [1..pageCount -> {0, 270}] :
            /\ (~loadable => \A k \in 1..pageCount : rotate[k] = 0)
            /\ req' = [NoRequest EXCEPT !.op = "rotate", !.hasFile = hasFile,
                           !.token = IF hasFile THEN issued + 1 ELSE 0,
                           !.size = IF hasFile THEN MaxSize ELSE 0,
                           !.loadable = loadable, !.pageCount = pageCount,
                           !.rotate = rotate, !.rotations = rotations]
            /\ files' = IF hasFile
                        THEN WriteFile(files, UploadNameFor(issued + 1),
                                 DocFile("upload", MaxSize,
                                         [k \in 1..pageCount |-> PageOf(0, k)],
                                         rotate, NoInfo))
                        ELSE files
            /\ issued' = IF hasFile THEN issued + 1 ELSE issued
    /\ pc' = "received"
    /\ UNCHANGED <<now, sweep, served, res, mem, gsVars, pageIndices, waiting>>

\* pIndex = parseInt(pageIdx) - 1; pIndex >= 0 && pIndex < pages.length
RefersTo(pageIdx, p, pageCount) ==
    LET n == ParseInt(pageIdx)
    IN  /\ n.k = "num"
        /\ n.v - 1 >= 0
        /\ n.v - 1 < pageCount
        /\ n.v = p

\* The sum of angle = parseInt(rotationMap[pageIdx]) over the keys of the
\* set keys, as a number: NaN when one of the values is no integer.
RECURSIVE AngleSum(_, _)
AngleSum(rotationMap, keys) ==
    IF keys = {} THEN Num(0)
    ELSE LET pageIdx == CHOOSE k \in keys : TRUE
             angle == ParseInt(rotationMap[pageIdx])
             rest == AngleSum(rotationMap, keys \ {pageIdx})
         IN  IF angle.k = "num" /\ rest.k = "num"
             THEN Num(angle.v + rest.v)
             ELSE NaN

\* Object.keys(rotationMap).forEach(...): the angle handed to
\* page.setRotation(degrees(currentRotation + angle)) for page p once every
\* key that refers to p was visited; the page's own angle when none does.
Rotated(current, rotationMap, p, pageCount) ==
    LET sum == AngleSum(rotationMap,
                        {k \in DOMAIN rotationMap : RefersTo(k, p, pageCount)})
    IN  IF sum.k = "num" THEN Num(current + sum.v) ELSE NaN

\* path.join(TEMP_DIR, `rotated_${req.file.filename}`)
RotatedPath == <<"rotated_">> \o UploadName

\* exports.rotate, up to the rotated document saved: the input checks,
\* JSON.parse, fs.readFile of the upload, its load and the rotations;
\* pdf-lib's setRotation throws on an angle that is no multiple of 90, NaN
\* included, which the handler's catch answers.
Rotate(outSize) ==
    /\ pc = "received"
    /\ req.op = "rotate"
    /\ IF ~req.hasFile
       THEN /\ Answers(Err(400, "No file uploaded"))
            /\ files' = files
       ELSE IF req.rotations.kind \in {"absent", "empty"}
       THEN /\ Answers(Err(400, "Rotation data required"))
            /\ files' = files
       ELSE IF \/ req.rotations.kind = "invalid"
               \/ UploadName \notin DOMAIN files
               \/ ~req.loadable
       THEN /\ Answers(Err(500, "Failed to rotate PDF"))
            /\ files' = files
       ELSE LET src == files[UploadName]
                angles == [p \in 1..Len(src.pages) |->
                               Rotated(src.rotate[p], req.rotations.entries,
                                       p, Len(src.pages))]
            IN  IF \E p \in DOMAIN angles :
                        angles[p].k # "num" \/ angles[p].v % 90 # 0
                THEN /\ Answers(Err(500, "Failed to rotate PDF"))
                     /\ files' = files
                ELSE Saves(RotatedPath,
                         DocFile("rotate", outSize, src.pages,
                                 [p \in DOMAIN angles |-> angles[p].v],
                                 src.info))
    /\ UNCHANGED <<storeVars, req, gsVars, pageIndices>>

\* rotate: stats = await fs.stat(outputPath) and the answer
RotateAnswers ==
    /\ req.op = "rotate"
    /\ StatAnswers(Ok(RotatedPath, 0, req.size, FALSE),
                   Err(500, "Failed to rotate PDF"))

\* ------------------------------------------------------- updateMetadata

\* The title, author and subject fields tried: absent, "" and "n".
MetaFields == {Absent} \cup {Field(t) : t \in {<<>>, <<"n">>}}

\* The information dictionary of an uploaded document that has one.
OldInfo ==
    [title |-> <<"o">>, author |-> <<"o">>, subject |-> <<"o">>,
     keywords |-> <<<<"o">>>>, producer |-> "CamScanner"]

\* POST /api/metadata; the keywords fields tried are absent, "", "n" and
\* "a,b".
UploadMetadata ==
    /\ pc = "idle"
    /\ issued < MaxStored
    /\ \E hasFile \in BOOLEAN, loadable \in BOOLEAN, info \in {NoInfo, OldInfo},
          title \in MetaFields, author \in MetaFields, subject \in MetaFields,
          keywords \in {Absent} \cup {Field(t) : t \in {<<>>, <<"n">>,
                                                          <<"a", ",", "b">>}} :
        /\ (~hasFile => ~loadable)
        /\ (~loadable => info = NoInfo)
        /\ req' = [NoRequest EXCEPT !.op = "updateMetadata",
                       !.hasFile = hasFile,
                       !.token = IF hasFile THEN issued + 1 ELSE 0,
                       !.size = IF hasFile THEN MaxSize ELSE 0,
                       !.loadable = loadable, !.pageCount = 1, !.info = info,
                       !.title = title, !.author = author,
                       !.subject = subject, !.keywords = keywords]
        /\ files' = IF hasFile
                    THEN WriteFile(files, UploadNameFor(issued + 1),
                             DocFile("upload", MaxSize, <<PageOf(0, 1)>>,
                                     <<0>>, info))
                    ELSE files
        /\ issued' = IF hasFile THEN issued + 1 ELSE issued
    /\ pc' = "received"
    /\ UNCHANGED <<now, sweep, served, res, mem, gsVars, pageIndices, waiting>>

\* Variant: a field is written whenever the form has it, empty or not.
SetIfGiven_present(field, value, old) == IF field.present THEN value ELSE old

\* if (title) doc.setTitle(title): the entry afterwards
SetIfGiven(field, value, old) == IF Truthy(field) THEN value ELSE old

\* path.join(TEMP_DIR, `meta_${uuidv4()}.pdf`): the token is one no other
\* name has
MetaPath == <<"meta_", Token(req.token), ".pdf">>

\* exports.updateMetadata, up to the new document saved: the input check,
\* fs.readFile of the upload, its load, the setters and the save
UpdateMetadata(outSize) ==
    /\ pc = "received"
    /\ req.op = "updateMetadata"
    /\ IF ~req.hasFile
       THEN /\ Answers(Err(400, "No PDF uploaded"))
            /\ files' = files
       ELSE IF UploadName \notin DOMAIN files \/ ~req.loadable
       THEN /\ Answers(Err(500, "Metadata update failed"))
            /\ files' = files
       ELSE LET src == files[UploadName]
                info ==
                    [title    |-> SetIfGiven(req.title, req.title.text,
                                             src.info.title),
                     author   |-> SetIfGiven(req.author, req.author.text,
                                             src.info.author),
                     subject  |-> SetIfGiven(req.subject, req.subject.text,
                                             src.info.subject),
                     keywords |-> SetIfGiven(req.keywords,
                                             SplitBy(req.keywords.text, ","),
                                             src.info.keywords),
                     producer |-> "College Submission Toolkit"]
            IN  Saves(MetaPath,
                    DocFile("updateMetadata", outSize, src.pages, src.rotate,
                            info))
    /\ UNCHANGED <<storeVars, req, gsVars, pageIndices>>

\* updateMetadata: stats = await fs.stat(outputPath) and the answer
MetadataAnswers ==
    /\ req.op = "updateMetadata"
    /\ StatAnswers(Ok(MetaPath, 0, 0, FALSE),
                   Err(500, "Metadata update failed"))

\* ------------------------------------------------- names: rename, download

\* multer's filename `${uuidv4()}_${file.originalname}`, the original name
\* character by character
MulterName(i, originalname) == <<Token(i), "_">> \o originalname

\* The characters the class [a-zA-Z0-9_.-] matches.
SafeChar(c) ==
    LET lowercase == {"a", "b", "c", "d", "e", "f", "g", "h", "i", "j", "k",
                      "l", "m", "n", "o", "p", "q", "r", "s", "t", "u", "v",
                      "w", "x", "y", "z"}
        uppercase == {"A", "B", "C", "D", "E", "F", "G", "H", "I", "J", "K",
                      "L", "M", "N", "O", "P", "Q", "R", "S", "T", "U", "V",
                      "W", "X", "Y", "Z"}
    IN  c \in lowercase \cup uppercase \cup {"_", ".", "-"} \/ DigitVal(c) < 10

\* A field of req.body inside a template literal: undefined reads
\* "undefined".
Interpolated(f) ==
    IF f.present THEN f.text
    ELSE <<"u", "n", "d", "e", "f", "i", "n", "e", "d">>

\* `${rollNo}_${subject}_${type}_${date}.pdf`
\*     .replace(/[^a-zA-Z0-9_.-]/g, '')
NewFilename(rollNo, subject, type, date) ==
    SelectSeq(Interpolated(rollNo) \o <<"_">> \o Interpolated(subject)
              \o <<"_">> \o Interpolated(type) \o <<"_">>
              \o Interpolated(date) \o <<".", "p", "d", "f">>,
              SafeChar)

\* POST /api/rename: multer stores the upload under a name with a token of
\* its own; the bytes of the upload are known by that token.  The original
\* names tried are "in.pdf" and "a b.pdf", the rollNo fields undefined, "1",
\* "2" and "../".
UploadRename ==
    /\ pc = "idle"
    /\ issued < MaxStored
    /\ \E hasFile \in BOOLEAN,
          originalname \in {<<"i", "n", ".", "p", "d", "f">>,
                            <<"a", " ", "b", ".", "p", "d", "f">>},
          rollNo \in {Absent, Field(<<"1">>), Field(<<"2">>),
                      Field(<<".", ".", "/">>)} :
        /\ (~hasFile => originalname = <<"i", "n", ".", "p", "d", "f">>
                        /\ rollNo = Absent)
        /\ req' = [NoRequest EXCEPT
                       !.op = "rename", !.hasFile = hasFile,
                       !.token = IF hasFile THEN issued + 1 ELSE 0,
                       !.filename = IF hasFile
                                    THEN MulterName(issued + 1, originalname)
                                    ELSE NoPath,
                       !.rollNo = rollNo, !.subject = Field(<<"s">>),
                       !.type = Field(<<"t">>), !.date = Field(<<"d">>)]
        /\ files' = IF hasFile
                    THEN WriteFile(files, MulterName(issued + 1, originalname),
                                   File(Token(issued + 1), 1, <<>>))
                    ELSE files
        /\ issued' = IF hasFile THEN issued + 1 ELSE issued
    /\ pc' = "received"
    /\ UNCHANGED <<res, mem, gsVars, pageIndices, now, sweep, served, waiting>>

\* exports.rename up to await fs.rename(oldPath, newPath), which rejects
\* when the upload is no longer there.
Rename ==
    /\ pc = "received"
    /\ req.op = "rename"
    /\ IF ~req.hasFile
       THEN /\ Answers(Err(400, "No file uploaded"))
            /\ files' = files
       ELSE IF req.filename \notin DOMAIN files
       THEN /\ Answers(Err(500, "Rename failed"))
            /\ files' = files
       ELSE LET newFilename == NewFilename(req.rollNo, req.subject, req.type,
                                           req.date)
            IN  /\ files' = MoveFile(files, req.filename, newFilename)
                /\ mem' = Holding(newFilename, files[req.filename])
                /\ pc' = "renamed"
                /\ res' = res
    /\ UNCHANGED <<storeVars, req, gsVars, pageIndices>>

\* rename: the descriptor with the new name; served keeps the url answered
\* with the bytes it stands for.
RenameAnswers ==
    /\ pc = "renamed"
    /\ Answers(Ok(mem.path, 0, 0, FALSE))
    /\ served' = served \cup {[url |-> mem.path, data |-> mem.doc.data]}
    /\ UNCHANGED <<req, files, gsVars, pageIndices, now, issued, sweep,
                   waiting>>

\* path.join(TEMP_DIR, filename), as a path relative to TEMP_DIR: the
\* number of directories to go up, the segments to go down from there, and
\* whether a separator ends it. The segments of filename are applied one by
\* one, "" and "." dropped and ".." taking the last segment back or going
\* up; going down by the name of the directory left is being back in it
\* (TEMP_DIR is path.join(__dirname, 'temp'), __dirname is backend). The
\* separator that ends filename is kept.
PathJoin(filename) ==
    LET segments == SplitBy(filename, "/")
        left == <<<<"t", "e", "m", "p">>,
                  <<"b", "a", "c", "k", "e", "n", "d">>>>
        walk[i \in 0..Len(segments)] ==
            IF i = 0 THEN [up |-> 0, down |-> <<>>, slash |-> FALSE]
            ELSE LET at == walk[i - 1]
                     segment == segments[i]
                 IN  IF segment = <<>> \/ segment = <<".">> THEN at
                     ELSE IF segment = <<".", ".">>
                     THEN IF at.down = <<>>
                          THEN [at EXCEPT !.up = @ + 1]
                          ELSE [at EXCEPT !.down = SubSeq(@, 1, Len(@) - 1)]
                     ELSE IF /\ at.down = <<>>
                             /\ at.up \in 1..Len(left)
                             /\ segment = left[at.up]
                     THEN [at EXCEPT !.up = @ - 1]
                     ELSE [at EXCEPT !.down = Append(@, segment)]
    IN  [walk[Len(segments)] EXCEPT
             !.slash = filename # <<>> /\ filename[Len(filename)] = "/"]

\* The files of the repository whose paths are known, each by its segments
\* from the root of the repository; TEMP_DIR is backend/temp there.
Repository ==
    {<<<<"b", "a", "c", "k", "e", "n", "d">>, <<"c", "o", "n", "t", "r", "o",
      "l", "l", "e", "r", "s">>, <<"p", "d", "f", "C", "o", "n", "t", "r",
      "o", "l", "l", "e", "r", ".", "j", "s">>>>,
     <<<<"b", "a", "c", "k", "e", "n", "d">>, <<"s", "e", "r", "v", "e", "r",
      ".", "j", "s">>>>,
     <<<<"d", "e", "p", "l", "o", "y", ".", "b", "a", "t">>>>,
     <<<<"f", "r", "o", "n", "t", "e", "n", "d">>, <<"s", "r", "c">>, <<"A",
      "p", "p", ".", "j", "s", "x">>>>,
     <<<<"f", "r", "o", "n", "t", "e", "n", "d">>, <<"s", "r", "c">>, <<"c",
      "o", "m", "p", "o", "n", "e", "n", "t", "s">>, <<"F", "A", "Q", ".",
      "j", "s", "x">>>>,
     <<<<"f", "r", "o", "n", "t", "e", "n", "d">>, <<"s", "r", "c">>, <<"c",
      "o", "m", "p", "o", "n", "e", "n", "t", "s">>, <<"I", "n", "t", "e",
      "r", "a", "c", "t", "i", "v", "e", "B", "a", "c", "k", "g", "r", "o",
      "u", "n", "d", ".", "j", "s", "x">>>>,
     <<<<"f", "r", "o", "n", "t", "e", "n", "d">>, <<"s", "r", "c">>, <<"c",
      "o", "m", "p", "o", "n", "e", "n", "t", "s">>, <<"P", "a", "g", "e",
      "G", "r", "i", "d", ".", "j", "s", "x">>>>,
     <<<<"f", "r", "o", "n", "t", "e", "n", "d">>, <<"s", "r", "c">>, <<"c",
      "o", "m", "p", "o", "n", "e", "n", "t", "s">>, <<"P", "r", "e", "v",
      "i", "e", "w", ".", "j", "s", "x">>>>,
     <<<<"f", "r", "o", "n", "t", "e", "n", "d">>, <<"s", "r", "c">>, <<"c",
      "o", "m", "p", "o", "n", "e", "n", "t", "s">>, <<"T", "o", "o", "l",
      "C", "o", "n", "f", "i", "g", ".", "j", "s", "x">>>>}

\* What may be at a path of the disk: a file, a directory or nothing.
\* TEMP_DIR and the directories above it are there; the temp directory
\* holds what was stored in it and no more; the files of the repository
\* are there with their directories, and nothing is below a file. Of any
\* other path (node_modules, package.json, what lies outside the
\* repository) nothing is known: anything may be there.
OnDisk(dir, path) ==
    LET place == SubSeq(<<<<"b", "a", "c", "k", "e", "n", "d">>>>, 1,
                        2 - path.up) \o path.down
    IN  IF path.down = <<>> THEN {"directory"}
        ELSE IF path.up = 0
        THEN IF path.down = <<DocxOut>> /\ DocxOut \in DOMAIN dir
             THEN {"directory"}
             ELSE IF \/ Len(path.down) = 1 /\ path.down[1] \in DOMAIN dir
                     \/ /\ Len(path.down) = 2
                        /\ path.down[1] = DocxOut
                        /\ <<"docx_out/">> \o path.down[2] \in DOMAIN dir
             THEN {"file"}
             ELSE {"nothing"}
        ELSE IF path.up > 2 THEN {"file", "directory", "nothing"}
        ELSE IF place \in Repository THEN {"file"}
        ELSE IF \E file \in Repository :
                    /\ Len(place) < Len(file)
                    /\ SubSeq(file, 1, Len(place)) = place
        THEN {"directory"}
        ELSE IF \E file \in Repository :
                    /\ Len(file) < Len(place)
                    /\ SubSeq(place, 1, Len(file)) = file
        THEN {"nothing"}
        ELSE {"file", "directory", "nothing"}

\* fs.existsSync(filePath), for what is at the path: a directory, or a
\* file and a path no separator ends.
ExistsSync(entry, path) ==
    \/ entry = "directory"
    \/ entry = "file" /\ ~path.slash

\* res.download(filePath), which Express answers from the event loop after
\* the handler has returned, for what is at the path by then. No options
\* are given: a last segment that begins with a dot is answered 404, as a
\* file that is no longer there is; a directory is passed on, and no route
\* is left to answer; a file is sent.
ResDownload(filename, path, entry) ==
    IF path.down # <<>> /\ path.down[Len(path.down)][1] = "."
    THEN Err(404, "Not Found")
    ELSE IF entry = "nothing" THEN Err(404, "Not Found")
    ELSE IF entry = "directory" THEN Err(404, "Cannot GET")
    ELSE Ok(filename, 0, 0, FALSE)

\* ------------------------------------------- temp store and its cleanup

\* 5 * 60 * 1000 milliseconds, in minutes
TTL == 5

\* The server process runs.
Serving == pc # "crashed"

\* A minute passes. The timer of setInterval(..., 60 * 1000) fires once in
\* every minute after the first for as long as the server runs: the pass of
\* the minute that ends has been started. A pass runs for less than
\* MaxPasses minutes of the clock, and what a pass that is over has logged
\* is kept until the minute ends.
Tick ==
    /\ now < MaxTime
    /\ Serving => (now = 0 \/ \E j \in 1..MaxPasses : sweep[j].fired = now)
    /\ \A j \in 1..MaxPasses :
           sweep[j].pc # "idle" => sweep[j].fired + MaxPasses > now + 1
    /\ now' = now + 1
    /\ sweep' = [j \in 1..MaxPasses |->
                     IF sweep[j].pc = "idle" THEN NoPass ELSE sweep[j]]
    /\ UNCHANGED <<pc, req, res, files, mem, gsVars, pageIndices, issued,
                   served, waiting>>

\* Another request stores its upload in the temp directory under a unique
\* name of its own (multer's diskStorage).
StoreFile ==
    /\ Serving
    /\ issued < MaxStored
    /\ issued' = issued + 1
    /\ files' = WriteFile(files, UploadNameFor(issued + 1),
                          File("upload", 1, <<>>))
    /\ UNCHANGED <<pc, req, res, mem, gsVars, pageIndices, now, sweep, served,
                   waiting>>

\* app.get('/download/:filename') up to the call of res.download: the
\* path is joined and tested with fs.existsSync, and the 404 of the handler
\* is answered when nothing is there. The names tried are the names
\* stored, each also with "/" after it and with "../temp/" before it, and
\* "x", "..", "../server.js", "../../backend/server.js",
\* "../../deploy.bat", "../../frontend", "../../frontend/src/App.jsx",
\* "../../package.json" and "../../../node_modules" (a "/" is sent as
\* %2F).
Retrieve ==
    /\ pc = "idle"
    /\ \E filename \in (DOMAIN files)
            \cup {n \o <<"/">> : n \in DOMAIN files}
            \cup {<<".", ".", "/", "t", "e", "m", "p", "/">> \o n :
                      n \in DOMAIN files}
            \cup {<<"x">>, <<".", ".">>,
                  <<".", ".", "/", "s", "e", "r", "v", "e", "r", ".", "j",
                    "s">>,
                  <<".", ".", "/", ".", ".", "/", "b", "a", "c", "k", "e",
                    "n", "d", "/", "s", "e", "r", "v", "e", "r", ".", "j",
                    "s">>,
                  <<".", ".", "/", ".", ".", "/", "d", "e", "p", "l", "o",
                    "y", ".", "b", "a", "t">>,
                  <<".", ".", "/", ".", ".", "/", "f", "r", "o", "n", "t",
                    "e", "n", "d">>,
                  <<".", ".", "/", ".", ".", "/", "f", "r", "o", "n", "t",
                    "e", "n", "d", "/", "s", "r", "c", "/", "A", "p", "p",
                    ".", "j", "s", "x">>,
                  <<".", ".", "/", ".", ".", "/", "p", "a", "c", "k", "a",
                    "g", "e", ".", "j", "s", "o", "n">>,
                  <<".", ".", "/", ".", ".", "/", ".", ".", "/", "n", "o",
                    "d", "e", "_", "m", "o", "d", "u", "l", "e", "s">>} :
        \E entry \in OnDisk(files, PathJoin(filename)) :
            /\ req' = [NoRequest EXCEPT !.op = "download",
                                        !.filename = filename]
            /\ IF ExistsSync(entry, PathJoin(filename))
               THEN /\ pc' = "sending"
                    /\ res' = res
               ELSE /\ pc' = "done"
                    /\ res' = Err(404, "File not found or expired")
    /\ UNCHANGED <<files, mem, gsVars, pageIndices, storeVars>>

\* Express answers the res.download of a retrieval: the file is looked up
\* again, after whatever ran since the handler returned. A path that a
\* separator ends was a directory when the handler tested it.
Sends ==
    /\ pc = "sending"
    /\ LET path == PathJoin(req.filename)
       IN  \E entry \in OnDisk(files, path) :
               /\ path.slash => entry # "file"
               /\ res' = ResDownload(req.filename, path, entry)
    /\ pc' = "done"
    /\ UNCHANGED <<req, files, mem, gsVars, pageIndices, storeVars>>

\* The server takes the next request. A request that was answered, or
\* never will be, is left behind; one that is not yet answered (its parts
\* are coming in, its handler is to be called or waits at an await, its
\* download is to be sent) waits for its turn while other requests are
\* taken and handled. Two requests that wait may be alike.
NextRequest ==
    /\ pc \notin {"idle", "crashed"}
    /\ IF pc \in {"done", "hung"}
       THEN waiting' = waiting
       ELSE /\ BagCardinality(waiting) < MaxWaiting
            /\ waiting' = waiting
                   (+) SetToBag({[pc |-> pc, req |-> req, res |-> res,
                                  mem |-> mem, probeIdx |-> probeIdx,
                                  probed |-> probed, gsCmd |-> gsCmd,
                                  presetIdx |-> presetIdx,
                                  invoked |-> invoked, bestPath |-> bestPath,
                                  bestSize |-> bestSize,
                                  pageIndices |-> pageIndices]})
    /\ pc' = "idle"
    /\ req' = NoRequest
    /\ res' = NoResponse
    /\ mem' = NoMem
    /\ probeIdx' = 0
    /\ probed' = <<>>
    /\ gsCmd' = ""
    /\ presetIdx' = 0
    /\ invoked' = <<>>
    /\ bestPath' = NoPath
    /\ bestSize' = Infinity
    /\ pageIndices' = <<>>
    /\ UNCHANGED <<files, now, issued, sweep, served>>

\* The await of a waiting request is over: its handler goes on where it
\* was.
Resume ==
    /\ pc = "idle"
    /\ \E handler \in BagToSet(waiting) :
        /\ waiting' = waiting (-) SetToBag({handler})
        /\ pc' = handler.pc
        /\ req' = handler.req
        /\ res' = handler.res
        /\ mem' = handler.mem
        /\ probeIdx' = handler.probeIdx
        /\ probed' = handler.probed
        /\ gsCmd' = handler.gsCmd
        /\ presetIdx' = handler.presetIdx
        /\ invoked' = handler.invoked
        /\ bestPath' = handler.bestPath
        /\ bestSize' = handler.bestSize
        /\ pageIndices' = handler.pageIndices
    /\ UNCHANGED <<files, now, issued, sweep, served>>

\* now - stats.mtimeMs > 5 * 60 * 1000
Expired(at, mtime) == at - mtime > TTL

\* setInterval(..., 60 * 1000): the timer fires, a minute or more after the
\* server started and after it fired last, whether the passes started
\* before are over or not: files = await fs.readdir(TEMP_DIR). The listing
\* holds the entries of the temp directory itself, not those inside
\* docx_out. sweep[i] is the i-th of the passes followed, fired the minute
\* its timer fired; a pass that is over makes room for the next.
SweepBegin ==
    /\ Serving
    /\ \A j \in 1..MaxPasses : sweep[j].fired < now
    /\ \E i \in 1..MaxPasses :
        /\ sweep[i].pc = "idle"
        /\ \A j \in 1..(i - 1) : sweep[j].pc # "idle"
        /\ sweep' = [sweep EXCEPT ![i] =
                         [NoPass EXCEPT
                             !.pc = "listed", !.fired = now,
                             !.todo = {n \in DOMAIN files :
                                          n[1] # "docx_out/"}]]
    /\ UNCHANGED <<pc, req, res, files, mem, gsVars, pageIndices, now, issued,
                   served, waiting>>

\* The listing is there: now = Date.now(), the time every entry of the
\* pass is measured against, read after the await of fs.readdir.
SweepNow ==
    /\ Serving
    /\ \E i \in 1..MaxPasses :
        /\ sweep[i].pc = "listed"
        /\ sweep' = [sweep EXCEPT ![i] =
                         [@ EXCEPT !.pc = "running", !.now = now]]
    /\ UNCHANGED <<pc, req, res, files, mem, gsVars, pageIndices, now, issued,
                   served, waiting>>

\* for (const file of files): the turn of the loop of a pass for an entry
\* of its listing, whatever the entry is, up to
\* stats = await fs.stat(filePath) and the test of its age. When the stat
\* rejects (the entry is no longer there, or the file system refuses) the
\* catch around the loop ends the pass; failed is the entry of the error
\* logged.
SweepVisit ==
    /\ Serving
    /\ \E i \in 1..MaxPasses :
        /\ sweep[i].pc = "running"
        /\ \E file \in sweep[i].todo, rejects \in BOOLEAN :
            sweep' = [sweep EXCEPT ![i] =
                IF rejects \/ file \notin DOMAIN files
                THEN [@ EXCEPT !.pc = "idle", !.todo = {}, !.failed = {file}]
                ELSE IF Expired(@.now, files[file].mtime)
                THEN [@ EXCEPT !.pc = "removing", !.visiting = file,
                               !.age = sweep[i].now - files[file].mtime]
                ELSE [@ EXCEPT !.todo = @ \ {file}]]
    /\ UNCHANGED <<pc, req, res, files, mem, gsVars, pageIndices, now, issued,
                   served, waiting>>

\* await fs.remove(filePath) of the expired entry, which another pass may
\* have removed already: when it rejects the catch around the loop ends the
\* pass. deleted is the pass's log of the entries removed, with the age
\* they had.
SweepRemoves ==
    /\ Serving
    /\ \E i \in 1..MaxPasses, rejects \in BOOLEAN :
        /\ sweep[i].pc = "removing"
        /\ IF rejects
           THEN /\ sweep' = [sweep EXCEPT ![i] =
                                 [@ EXCEPT !.pc = "idle", !.todo = {},
                                           !.failed = {sweep[i].visiting},
                                           !.visiting = NoPath, !.age = 0]]
                /\ files' = files
           ELSE /\ files' = RemoveEntry(files, sweep[i].visiting)
                /\ sweep' = [sweep EXCEPT ![i] =
                       [@ EXCEPT
                           !.pc = "running",
                           !.todo = @ \ {sweep[i].visiting},
                           !.deleted = @ \cup {[name |-> sweep[i].visiting,
                                                age |-> sweep[i].age]},
                           !.visiting = NoPath, !.age = 0]]
    /\ UNCHANGED <<pc, req, res, mem, gsVars, pageIndices, now, issued, served,
                   waiting>>

\* The loop of a pass has gone through the listing.
SweepEnd ==
    /\ Serving
    /\ \E i \in 1..MaxPasses :
        /\ sweep[i].pc = "running"
        /\ sweep[i].todo = {}
        /\ sweep' = [sweep EXCEPT ![i].pc = "idle"]
    /\ UNCHANGED <<pc, req, res, files, mem, gsVars, pageIndices, now, issued,
                   served, waiting>>

\* ------------------------------------------------------- specifications

\* The steps of the server itself: they run whenever they can.
ToolsProgram ==
    \/ UploadCompress
    \/ UploadWord
    \/ CompressBegin
    \/ SkipAnswers
    \/ OpensOutput
    \/ WriteCompletes
    \/ FallbackAnswers
    \/ PresetStat
    \/ PresetRemoves
    \/ DefaultStat
    \/ DefaultBest
    \/ Finish
    \/ CompressAnswers
    \/ WordBegin
    \/ SofficeStarts
    \/ WordStat
    \/ WordMoves
    \/ WordAnswers

\* The external processes: what they write while they run, and the exec
\* callbacks, which run when the process ends, if it does.
ToolsProcessExit ==
    \/ ProbeFailsNext
    \/ \E s \in Sizes : ProbeFailsFallback(s)
    \/ ProbeSucceeds
    \/ \E s \in Sizes : GsWrites(s)
    \/ \E error \in BOOLEAN : PresetReturns(error)
    \/ \E error \in BOOLEAN : DefaultReturns(error)
    \/ \E s \in Sizes : SofficeWrites(s)
    \/ \E error \in BOOLEAN : SofficeReturns(error)

ToolsNext == ToolsProgram \/ ToolsProcessExit

\* compress and pdfToWord.
SpecTools == Init /\ [][ToolsNext]_vars

\* The same, with the server's own steps scheduled fairly; nothing makes an
\* external process end.
FairSpecTools == SpecTools /\ WF_vars(ToolsProgram)

PagesNext ==
    \/ UploadPages
    \/ \E s \in Sizes : Split(s)
    \/ OpensOutput
    \/ WriteCompletes
    \/ SplitAnswers
    \/ \E s \in Sizes : Organise(s)
    \/ OrganiseAnswers

\* split and organise.
SpecPages == Init /\ [][PagesNext]_vars

DocsNext ==
    \/ UploadMerge
    \/ StoresPart
    \/ \E s \in Sizes : Merge(s)
    \/ OpensOutput
    \/ WriteCompletes
    \/ MergeAnswers
    \/ UploadImages
    \/ \E s \in Sizes : ImageToPdf(s)
    \/ ImageAnswers
    \/ UploadValidate
    \/ Validate
    \/ UploadRotate
    \/ \E s \in Sizes : Rotate(s)
    \/ RotateAnswers
    \/ UploadMetadata
    \/ \E s \in Sizes : UpdateMetadata(s)
    \/ MetadataAnswers

\* merge, imageToPdf, validate, rotate and updateMetadata.
SpecDocs == Init /\ [][DocsNext]_vars

StoreNext ==
    \/ Tick
    \/ StoreFile
    \/ SweepBegin
    \/ SweepNow
    \/ SweepVisit
    \/ SweepRemoves
    \/ SweepEnd

\* The temp store: files stored, the clock and the cleanup timer.
SpecStore == Init /\ [][StoreNext]_vars

\* The cleanup timer and the clock next to the handler of pdfToWord: time
\* passes and a pass takes its turns between the steps of the request.
SweepWordNext ==
    \/ UploadWord
    \/ WordBegin
    \/ SofficeStarts
    \/ \E s \in Sizes : SofficeWrites(s)
    \/ \E error \in BOOLEAN : SofficeReturns(error)
    \/ WordStat
    \/ WordMoves
    \/ WordAnswers
    \/ Tick
    \/ SweepBegin
    \/ SweepNow
    \/ SweepVisit
    \/ SweepRemoves
    \/ SweepEnd

\* pdfToWord while the cleanup timer runs.
SpecSweepWord == Init /\ [][SweepWordNext]_vars

NamesNext ==
    \/ UploadRename
    \/ Rename
    \/ RenameAnswers
    \/ Retrieve
    \/ Sends
    \/ NextRequest
    \/ Resume

\* rename and download, the requests one after the other or side by side.
SpecNames == Init /\ [][NamesNext]_vars

Next ==
    \/ ToolsNext \/ PagesNext \/ DocsNext
    \/ StoreNext \/ SweepWordNext \/ NamesNext

\* Every operation modelled.
Spec == Init /\ [][Next]_vars

\* ------------------------------------------------- properties: compress

Done == pc = "done"

\* compress runs in tool-available mode: checkGsCommand found a binary.
ToolMode == req.op = "compress" /\ gsCmd # ""

\* compress runs in fallback mode: every command of checkGsCommand failed.
NoTool ==
    /\ req.op = "compress"
    /\ Done
    /\ probed = Commands
    /\ gsCmd = ""

\* A targetSize was given: the form field is there and is not empty.
TargetGiven == req.targetSize.present /\ req.targetSize.text # <<>>

\* The numbers the targetSize fields tried stand for.
TargetNumbers == [text \in TargetTexts |-> ToNumber(text)]

\* The number the targetSize field stands for.
TargetNum == TargetNumbers[req.targetSize.text]

\* The invocations that produced a candidate.
Produced == {i \in 1..Len(invoked) : invoked[i].state = "ok"}

\* Invocation i produced a candidate of size <= targetSize.
HitAt(i) ==
    /\ invoked[i].state = "ok"
    /\ JsLe(Num(invoked[i].size), TargetNum)

\* The order of the presets, highest quality first.
QualityOrder == <<"/prepress", "/printer", "/ebook", "/screen">>

\* The invocations made so far are the first presets of the list, in order,
\* all settled but possibly the last.
InPresetOrder ==
    /\ Len(invoked) <= Len(QualityOrder)
    /\ \A i \in 1..Len(invoked) : invoked[i].preset = QualityOrder[i]
    /\ \A i \in 1..(Len(invoked) - 1) : invoked[i].state # "running"

\* The candidate of invocation i is the output artifact and is what the
\* success descriptor reports.
PromotedIs(i) ==
    /\ res.status = 200
    /\ res.url = OutputPath
    /\ OutputPath \in DOMAIN files
    /\ files[OutputPath].data = invoked[i].preset
    /\ files[OutputPath].size = invoked[i].size
    /\ res.size = invoked[i].size

\* The search of compress is over: what is left is the move of the
\* candidate kept and the answer.
SearchOver == pc \in {"move", "moved", "done"}

\* C1: in compress with a targetSize, the tool available and the original
\* size above the target, presets are invoked one at a time in the order of
\* the list; no preset is invoked after one that produced a candidate of
\* size <= targetSize: the search is over with it, and that candidate is
\* the output artifact of the answer.
C1_GreedyFirstMatch ==
    (ToolMode /\ TargetGiven /\ JsGt(Num(req.size), TargetNum))
    => /\ InPresetOrder
       /\ \A i \in 1..(Len(invoked) - 1) : ~HitAt(i)
       /\ \A i \in 1..Len(invoked) :
              HitAt(i) => /\ SearchOver
                          /\ bestPath = StepOutputPath(invoked[i].preset)
                          /\ Done => PromotedIs(i)
       /\ (SearchOver /\ Len(invoked) < Len(QualityOrder))
          => HitAt(Len(invoked))

\* C1 witness: the first preset misses the target, the second meets it
\* exactly and ends the search.
C1_Witness ==
    /\ ToolMode /\ Done
    /\ req.size = 2
    /\ req.targetSize.text = <<"1">>
    /\ Len(invoked) = 2
    /\ invoked[1].state = "ok" /\ invoked[1].size = 2
    /\ invoked[2].state = "ok" /\ invoked[2].size = 1
    /\ files[OutputPath].data = "/printer"

\* The smallest size among the candidates produced.
MinProduced ==
    CHOOSE m \in {invoked[i].size : i \in Produced} :
        \A i \in Produced : m <= invoked[i].size

\* C2: in compress with a targetSize and the tool available, when no
\* candidate produced has size <= targetSize, every preset of the list has
\* been invoked and the output artifact is a candidate of minimum size among
\* those produced.
C2_SmallestOnExhaustion ==
    (ToolMode /\ TargetGiven /\ Done /\ \A i \in Produced : ~HitAt(i))
    => /\ Len(invoked) = Len(QualityOrder)
       /\ InPresetOrder
       /\ Produced # {} =>
            \E i \in Produced :
                /\ invoked[i].size = MinProduced
                /\ PromotedIs(i)

\* C2 witness: the list is exhausted with a failure and three candidates,
\* the smallest of them neither the first nor the last.
C2_Witness ==
    /\ ToolMode /\ Done /\ TargetGiven
    /\ req.targetSize.text = <<"0">>
    /\ Len(invoked) = 4
    /\ invoked[1].state = "ok" /\ invoked[1].size = 2
    /\ invoked[2].state = "failed"
    /\ invoked[3].state = "ok" /\ invoked[3].size = 1
    /\ invoked[4].state = "ok" /\ invoked[4].size = 2
    /\ files[OutputPath].data = "/ebook"

\* C3: once compress has started on a file whose size is <= the targetSize
\* given, a verbatim copy of the upload is the output and nothing is left
\* but the answer, which reports the original size; neither the probe nor
\* any preset has run.
C3_SkipCompression ==
    (/\ req.op = "compress" /\ req.hasFile
     /\ pc \notin {"idle", "received"}
     /\ TargetGiven /\ JsLe(Num(req.size), TargetNum))
    => /\ pc \in {"copied", "done"}
       /\ OutputPath \in DOMAIN files
       /\ files[OutputPath].data = files[UploadName].data
       /\ files[OutputPath].size = req.size
       /\ files[OutputPath].pages = files[UploadName].pages
       /\ Done => /\ res.status = 200
                   /\ res.url = OutputPath
                   /\ res.size = req.size
                   /\ res.originalSize = req.size
       /\ probed = <<>>
       /\ gsCmd = ""
       /\ invoked = <<>>

\* C3 witness: an upload of exactly the target size has been copied.
C3_Witness ==
    /\ req.op = "compress" /\ Done
    /\ req.size = 2
    /\ req.targetSize.text = <<"2">>
    /\ OutputPath \in DOMAIN files
    /\ files[OutputPath].data = "upload"

\* C4: when compress has finished in tool-available mode, no candidate file
\* is left in the temp directory: it holds the upload and, if a candidate
\* was promoted, the output.
C4_OnlyPromotedRemains ==
    (ToolMode /\ Done) => DOMAIN files \subseteq {UploadName, OutputPath}

\* C5 as claimed: when no tool is available, compress ends with a success
\* descriptor that carries a warning.
C5_FallbackAlwaysSucceeds ==
    NoTool => (res.status = 200 /\ res.warning)

\* C5 as amended: when no tool is available, compress ends with a success
\* descriptor that carries a warning and names the resaved document if the
\* upload can be loaded, and with a 500 error and no output if it cannot; no
\* preset is invoked either way.
C5_FallbackSucceedsIfLoadable ==
    NoTool =>
        /\ invoked = <<>>
        /\ IF req.loadable
           THEN /\ res.status = 200
                /\ res.warning
                /\ res.url = OutputPath
                /\ OutputPath \in DOMAIN files
                /\ files[OutputPath].data = "resaved"
                /\ res.size = files[OutputPath].size
           ELSE /\ res.status = 500
                /\ OutputPath \notin DOMAIN files

\* C5 witness: fallback mode has resaved a loadable upload.
C5_Witness ==
    /\ NoTool
    /\ req.loadable
    /\ res.status = 200
    /\ res.warning
    /\ req.size = 2
    /\ res.size = 1

\* C6: in tool-available mode compress ends with the compression failure
\* and no output artifact exactly when no invocation produced a candidate,
\* and with success when at least one did.
C6_FailureIffNoCandidate ==
    (ToolMode /\ Done) =>
        IF Produced = {}
        THEN /\ res.status = 500
             /\ res.error = "Could not compress file"
             /\ OutputPath \notin DOMAIN files
        ELSE /\ res.status = 200
             /\ res.url = OutputPath
             /\ OutputPath \in DOMAIN files

\* C6 witness: all four presets were tried and every one failed.
C6_Witness ==
    /\ ToolMode /\ Done
    /\ Len(invoked) = Len(QualityOrder)
    /\ Produced = {}
    /\ res.status = 500

\* The search of compress has run to exhaustion and the smallest candidate
\* produced, if any, is the output.
SearchExhausted ==
    /\ Len(invoked) = Len(QualityOrder)
    /\ InPresetOrder
    /\ Produced # {} =>
         \E i \in Produced :
             /\ invoked[i].size = MinProduced
             /\ PromotedIs(i)

\* C7 as claimed: with a targetSize <= 0, compress does not skip compression
\* (it probes for the tool) and, with the tool available, ends only after
\* invoking every preset, the smallest candidate being the output.
C7_NonPositiveNeverSatisfied ==
    (/\ req.op = "compress" /\ req.hasFile
     /\ pc \notin {"idle", "received"}
     /\ TargetGiven /\ JsLe(TargetNum, Num(0)))
    => /\ probed # <<>>
       /\ (ToolMode /\ Done) => SearchExhausted

\* C7 as amended: the same for a targetSize < 0, and for a targetSize of 0
\* as long as the original file and every candidate produced are not empty
\* (a size of 0 is <= 0 and does satisfy a target of 0).
C7_NegativeNeverSatisfied ==
    (/\ req.op = "compress" /\ req.hasFile
     /\ pc \notin {"idle", "received"}
     /\ TargetGiven
     /\ \/ JsLt(TargetNum, Num(0))
        \/ /\ TargetNum = Num(0)
           /\ req.size > 0
           /\ \A i \in Produced : invoked[i].size > 0)
    => /\ probed # <<>>
       /\ (ToolMode /\ Done) => SearchExhausted

\* C7 witness: with targetSize "0" every preset ran and the smallest
\* candidate, the second, was promoted.
C7_Witness ==
    /\ ToolMode /\ Done
    /\ req.targetSize.text = <<"0">>
    /\ req.size = 2
    /\ Len(invoked) = 4
    /\ \A i \in 1..4 : invoked[i].state = "ok"
    /\ invoked[2].size = 1
    /\ files[OutputPath].data = "/printer"

\* C8: when compress runs without a targetSize and the tool is available,
\* exactly one invocation is made, with the preset /ebook, and its
\* candidate, if produced, is the output artifact.
C8_DefaultSinglePreset ==
    (ToolMode /\ ~TargetGiven)
    => /\ Len(invoked) = 1
       /\ invoked[1].preset = "/ebook"
       /\ Done => invoked[1].state # "running"
       /\ (Done /\ invoked[1].state = "ok") => PromotedIs(1)

\* C8 witness: the default preset produced a candidate, which was promoted.
C8_Witness ==
    /\ ToolMode /\ Done
    /\ ~req.targetSize.present
    /\ invoked[1].state = "ok"
    /\ invoked[1].size = 2
    /\ res.status = 200

\* The handler waits for the callback of an exec.
AwaitingExec == pc \in {"probe", "gs", "gsDefault", "soffice"}

\* C9: every request that has started an external tool is eventually
\* answered, whether or not the tool process ever returns.
C9_ExecEventuallyAnswered == AwaitingExec ~> (res.status # 0)

\* --------------------------------------- properties: split and organise

\* C10: every 0-based index that split and organise hand to the page copy
\* lies in [0, pageCount - 1] (every page number resolved lies in
\* [1, pageCount]), and every page of the output is a page of the source.
C10_IndicesInRange ==
    (req.op \in {"split", "organise"})
    => /\ \A k \in 1..Len(pageIndices) :
              /\ pageIndices[k] >= 0
              /\ pageIndices[k] <= req.pageCount - 1
       /\ (Done /\ Len(pageIndices) > 0) => res.status = 200
       /\ \A n \in DOMAIN files :
              \A k \in 1..Len(files[n].pages) :
                  files[n].pages[k] \in 1..req.pageCount

\* C10 witness: split of a 2-page document with "0-12", a range that reaches
\* outside the document on both sides, has resolved pages 1 and 2.
C10_Witness ==
    /\ req.op = "split" /\ Done
    /\ req.pageCount = 2
    /\ req.pages.text = <<"0", "-", "1", "2">>
    /\ pageIndices = <<0, 1>>
    /\ res.status = 200

\* The handler came to resolve the page specification: a file, a non-empty
\* field and a document that loads.
Resolved ==
    /\ req.op \in {"split", "organise"}
    /\ Done
    /\ req.hasFile
    /\ Truthy(req.pages)
    /\ req.loadable

\* C11: the page list split resolves is sorted ascending and holds no page
\* twice, whatever the order and the overlap of the tokens.
C11_SortedNoDuplicates ==
    (req.op = "split" /\ Done)
    => \A i, j \in 1..Len(pageIndices) : i < j => pageIndices[i] < pageIndices[j]

\* The page numbers of the pageOrder field that are pages of the document,
\* in the order of the field.
PageOrderInRange ==
    LET parts == SplitBy(req.pages.text, ",")
        nums  == [i \in 1..Len(parts) |-> ParseInt(Trim(parts[i]))]
        IsPage(n) == n.k = "num" /\ n.v \in 1..req.pageCount
        kept  == SelectSeq(nums, IsPage)
    IN  [k \in 1..Len(kept) |-> kept[k].v]

\* C12: the page sequence organise writes is exactly the in-range page
\* numbers of pageOrder in the order given, repeated pages kept; all pages in
\* their original order give back the page sequence of the source.
C12_OrderPreserved ==
    (Resolved /\ req.op = "organise" /\ PageOrderInRange # <<>>)
    => /\ res.status = 200
       /\ OrganiseOutputPath \in DOMAIN files
       /\ files[OrganiseOutputPath].pages = PageOrderInRange
       /\ PageOrderInRange = [k \in 1..req.pageCount |-> k]
          => files[OrganiseOutputPath].pages = files[UploadName].pages

\* C12 witness: organise of a 3-page document with "2,1,2" wrote the pages
\* 2, 1, 2.
C12_Witness ==
    /\ Resolved /\ req.op = "organise"
    /\ req.pageCount = 3
    /\ req.pages.text = <<"2", ",", "1", ",", "2">>
    /\ res.status = 200
    /\ files[OrganiseOutputPath].pages = <<2, 1, 2>>

\* A token that stands for no page: a range whose bounds do not both parse
\* or whose start is greater than its end, a single token that does not
\* parse.
BadSplitToken(part) ==
    IF Includes(part, "-")
    THEN LET bounds == SplitBy(part, "-")
             start  == ParseInt(Trim(bounds[1]))
             end    == ParseInt(Trim(bounds[2]))
         IN  ~(start.k = "num" /\ end.k = "num" /\ start.v <= end.v)
    ELSE ParseInt(Trim(part)).k # "num"

BadOrderToken(part) == ParseInt(Trim(part)).k # "num"

\* Array.prototype.join(',') of the tokens.
RECURSIVE JoinTokens(_)
JoinTokens(parts) ==
    IF Len(parts) = 0 THEN <<>>
    ELSE IF Len(parts) = 1 THEN parts[1]
    ELSE parts[1] \o <<",">> \o JoinTokens(Tail(parts))

\* The tokens of the field that are not bad tokens.
GoodTokens ==
    LET parts == SplitBy(req.pages.text, ",")
        GoodSplit(p) == ~BadSplitToken(p)
        GoodOrder(p) == ~BadOrderToken(p)
    IN  IF req.op = "split" THEN SelectSeq(parts, GoodSplit)
                            ELSE SelectSeq(parts, GoodOrder)

\* C13: in split and organise a range token with start greater than end and
\* a token that does not parse contribute no page and cause no error: the
\* pages resolved are those of the field without these tokens, and the
\* answer is a server error in no case.
C13_BadTokensIgnored ==
    Resolved
    => /\ pageIndices =
              IF GoodTokens = <<>> THEN <<>>
              ELSE IF req.op = "split"
                   THEN SplitIndices(JoinTokens(GoodTokens), req.pageCount)
                   ELSE OrganiseIndices(JoinTokens(GoodTokens), req.pageCount)
       /\ res.status \in {200, 400}
       /\ res.status = 400 <=> pageIndices = <<>>

\* C13 witness: split of a 2-page document with "2-1,1", a reversed range
\* before a page number, has resolved page 1.
C13_Witness ==
    /\ Resolved /\ req.op = "split"
    /\ req.pageCount = 2
    /\ req.pages.text = <<"2", "-", "1", ",", "1">>
    /\ pageIndices = <<0>>
    /\ res.status = 200

\* C14: when the page specification resolves to no page, split and organise
\* answer 400 and write no file.
C14_EmptySelectionRejected ==
    (Resolved /\ pageIndices = <<>>)
    => /\ res.status = 400
       /\ DOMAIN files = {UploadName}

\* C14 witness: organise of a 2-page document with "0,a", which names no
\* page, was answered 400.
C14_Witness ==
    /\ Resolved /\ req.op = "organise"
    /\ req.pageCount = 2
    /\ req.pages.text = <<"0", ",", "a">>
    /\ pageIndices = <<>>
    /\ res.status = 400

\* ------------------------- properties: merge, rotate, validate, metadata

\* The number of pages of the first n files of the request.
PagesBefore(n) ==
    LET sum[i \in 0..n] ==
            IF i = 0 THEN 0 ELSE sum[i - 1] + req.docs[i].pageCount
    IN  sum[n]

\* The request is a merge of two or more documents that all load, and it
\* was answered.
MergedLoadable ==
    /\ req.op = "merge" /\ Done
    /\ Len(req.docs) >= 2
    /\ \A i \in 1..Len(req.docs) : req.docs[i].loadable

\* C15 as stated: for two or more loadable documents merge writes their
\* pages in the order of submission, the k-th page of the i-th document
\* after all pages of the documents before it, and reports the sum of their
\* page counts.
C15_MergeInOrder ==
    MergedLoadable
    => /\ res.status = 200
       /\ MergedPath \in DOMAIN files
       /\ Len(files[MergedPath].pages) = PagesBefore(Len(req.docs))
       /\ res.pageCount = PagesBefore(Len(req.docs))
       /\ \A i \in 1..Len(req.docs) :
              \A k \in 1..req.docs[i].pageCount :
                  files[MergedPath].pages[PagesBefore(i - 1) + k] = PageOf(i, k)

\* C15, amended: for two or more loadable documents merge writes their
\* pages in the order of submission, the k-th page of the i-th document
\* after all pages of the documents before it; it reports the sum of their
\* page counts when one of them has a page, and otherwise writes and
\* reports one page, the blank page of an empty document.
C15_MergeInOrderOrBlank ==
    MergedLoadable
    => /\ res.status = 200
       /\ MergedPath \in DOMAIN files
       /\ IF PagesBefore(Len(req.docs)) = 0
          THEN /\ files[MergedPath].pages = <<0>>
               /\ res.pageCount = 1
          ELSE /\ Len(files[MergedPath].pages) = PagesBefore(Len(req.docs))
               /\ res.pageCount = PagesBefore(Len(req.docs))
               /\ \A i \in 1..Len(req.docs) :
                      \A k \in 1..req.docs[i].pageCount :
                          files[MergedPath].pages[PagesBefore(i - 1) + k]
                          = PageOf(i, k)

\* C15 witness: three documents of 2, 0 and 2 pages were merged into one of
\* 4 pages.
C15_Witness ==
    /\ req.op = "merge" /\ Done
    /\ Len(req.docs) = 3
    /\ \A i \in 1..3 : req.docs[i].loadable
    /\ req.docs[1].pageCount = 2
    /\ req.docs[2].pageCount = 0
    /\ req.docs[3].pageCount = 2
    /\ res.status = 200
    /\ res.pageCount = 4

\* The keys of the rotations object that refer to page p of the document.
KeysOf(p) ==
    {k \in DOMAIN req.rotations.entries : RefersTo(k, p, req.pageCount)}

\* C16: after rotate the /Rotate entry of every page referenced is the
\* previous one plus the delta, modulo 360, and lies in [0, 360).
C16_RotationNormalised ==
    (req.op = "rotate" /\ Done /\ res.status = 200)
    => \A p \in 1..req.pageCount :
           KeysOf(p) # {}
           => /\ files[RotatedPath].rotate[p] =
                     (req.rotate[p]
                      + AngleSum(req.rotations.entries, KeysOf(p)).v) % 360
              /\ files[RotatedPath].rotate[p] \in 0..359

\* C17: validate answers INVALID for a file that does not load or is
\* encrypted, whatever its size, otherwise RISKY above the threshold and
\* READY at or below it; a file that does not load is never a server error.
C17_ValidateVerdict ==
    (req.op = "validate" /\ Done /\ req.hasFile)
    => /\ res.status = 200
       /\ res.verdict =
              IF ~req.loadable \/ req.encrypted THEN "INVALID"
              ELSE IF req.size >= RiskyThreshold + 1 THEN "RISKY"
              ELSE "READY"

\* C17 witness: a loadable, unencrypted file of exactly the threshold was
\* answered READY.
C17_Witness ==
    /\ req.op = "validate" /\ Done
    /\ req.hasFile /\ req.loadable /\ ~req.encrypted
    /\ req.size = 5242880
    /\ res.verdict = "READY"

\* A field of the form that was supplied: present and not empty.
Supplied(field) == field.present /\ Len(field.text) > 0

\* C18: updateMetadata overwrites exactly the fields among title, author,
\* subject and keywords that were supplied, leaves the others as they were
\* and always sets the producer to the fixed tag.
C18_OnlySuppliedOverwritten ==
    (req.op = "updateMetadata" /\ Done /\ req.hasFile /\ req.loadable)
    => /\ res.status = 200
       /\ MetaPath \in DOMAIN files
       /\ LET new == files[MetaPath].info
          IN  /\ new.title = IF Supplied(req.title) THEN req.title.text
                             ELSE req.info.title
              /\ new.author = IF Supplied(req.author) THEN req.author.text
                              ELSE req.info.author
              /\ new.subject = IF Supplied(req.subject) THEN req.subject.text
                               ELSE req.info.subject
              /\ Supplied(req.keywords)
                 => /\ JoinTokens(new.keywords) = req.keywords.text
                    /\ \A i \in 1..Len(new.keywords) :
                           ~Includes(new.keywords[i], ",")
              /\ ~Supplied(req.keywords) => new.keywords = req.info.keywords
              /\ new.producer = "College Submission Toolkit"
       /\ files[MetaPath].pages = files[UploadName].pages

\* C18 witness: a document with information was given a title and an empty
\* author only: the title is the new one, the author and the subject are the
\* old ones.
C18_Witness ==
    /\ req.op = "updateMetadata" /\ Done
    /\ req.info = OldInfo
    /\ req.title = Field(<<"n">>)
    /\ req.author = Field(<<>>)
    /\ req.subject = Absent
    /\ req.keywords = Absent
    /\ res.status = 200
    /\ files[MetaPath].info.title = <<"n">>
    /\ files[MetaPath].info.author = <<"o">>
    /\ files[MetaPath].info.producer = "College Submission Toolkit"

\* The inputs of imageToPdf that can be turned into a page: of a supported
\* media type and with bytes that embed.
Convertible ==
    {i \in 1..Len(req.docs) :
         /\ req.docs[i].mimetype \in {"image/jpeg", "image/jpg", "image/png"}
         /\ req.docs[i].embeds}

\* C19: imageToPdf skips every input that cannot be turned into a page and
\* goes on: the answer is a success and the output has one page per input
\* converted, in the order of the inputs.
C19_BadImagesSkipped ==
    (req.op = "imageToPdf" /\ Done /\ Len(req.docs) > 0)
    => /\ res.status = 200
       /\ ConvertedPath \in DOMAIN files
       /\ Len(files[ConvertedPath].pages) = Cardinality(Convertible)
       /\ res.pageCount = Cardinality(Convertible)
       /\ \A i \in Convertible :
              files[ConvertedPath].pages[Cardinality({j \in Convertible : j <= i})]
              = PageOf(i, 1)

\* ------------------------------------------------ properties: temp store

\* A GET /download of the name, with nothing else running before Express
\* answers, finds a file and Express sends it.
Retrievable(n) ==
    \A entry \in OnDisk(files, PathJoin(n)) :
        /\ ExistsSync(entry, PathJoin(n))
        /\ ResDownload(n, PathJoin(n), entry).status = 200

\* The i-th of the cleanup passes followed is over.
PassOver(i) == sweep[i].pc = "idle"

\* C20: after a cleanup pass every file whose age at the pass was above the
\* TTL is gone (but for an entry the file system refused to inspect or
\* remove) and its name is answered 404, every file the pass removed was of
\* an age above the TTL, and every file in place is answered 200.
C20_SweepEnforcesTtl ==
    \A i \in 1..MaxPasses :
        PassOver(i)
        => /\ \A n \in (DOMAIN files) \ sweep[i].failed :
                  ~(sweep[i].now - files[n].mtime >= TTL + 1)
           /\ \A d \in sweep[i].deleted :
                  /\ d.age >= TTL + 1
                  /\ ~Retrievable(d.name)
           /\ \A n \in DOMAIN files : Retrievable(n)

\* The i-th of the cleanup passes followed was ended by an error on an
\* entry.
PassFailed(i) == PassOver(i) /\ sweep[i].failed # {}

\* C21: an error on one entry of a cleanup pass does not abort the pass:
\* once the pass is over, every other entry that was older than the TTL at
\* the pass has been deleted, and the next pass starts when the timer
\* fires next.
C21_ErrorDoesNotAbortSweep ==
    \A i \in 1..MaxPasses :
        PassFailed(i)
        => /\ \A n \in (DOMAIN files) \ sweep[i].failed :
                  ~Expired(sweep[i].now, files[n].mtime)
           /\ (\A j \in 1..MaxPasses : sweep[j].fired < now)
                  => ENABLED SweepBegin

\* --------------------------------------------------- properties: names

\* C22: no two requests write their output under the same name: the bytes
\* under a name answered to a request are the bytes that request produced,
\* as long as the name is in the store.
C22_NamesUnique ==
    \A a \in served :
        a.url \in DOMAIN files => files[a.url].data = a.data

\* C24: every name under which a file is written is one segment directly
\* inside the temp directory, made of a unique token and a suffix of safe
\* characters only, and every path a retrieval serves lies directly inside
\* the temp directory.
C24_NamesSafe ==
    /\ \A n \in DOMAIN files :
           /\ PathJoin(n) = [up |-> 0, down |-> <<n>>, slash |-> FALSE]
           /\ \E i \in 1..issued : n[1] = Token(i)
           /\ \A k \in 2..Len(n) : SafeChar(n[k])
    /\ (req.op = "download" /\ res.status = 200)
       => /\ PathJoin(req.filename).up = 0
          /\ Len(PathJoin(req.filename).down) = 1

\* ------------------------------------- properties: cleanup and requests

\* A request with an upload is being handled: its answer is still to come.
InFlight == req.hasFile /\ pc \notin {"idle", "done", "hung", "crashed"}

\* The upload of the request in flight has yet to be read by an external
\* process: the one that runs, or the one the handler starts next.
NeedsUpload == InFlight /\ pc \in {"probe", "gs", "gsDefault", "soffice"}

\* The candidate kept by compress has yet to be promoted.
NeedsCandidate ==
    InFlight /\ bestPath # NoPath /\ pc \in {"gs", "gsStat", "gsBest", "move"}

\* C23: whatever the interleaving of requests and cleanup passes, the files
\* a request in flight still needs are in the temp directory: its upload
\* and, in compress, the candidate kept for promotion.
C23_SweepSparesInFlight ==
    /\ NeedsUpload => UploadName \in DOMAIN files
    /\ NeedsCandidate => bestPath \in DOMAIN files


\* The names multer stored the uploads of the current request under.
Uploads == {UploadName} \cup {UploadNameOf(i) : i \in 1..MaxFiles}

\* A required input of the request is missing or invalid: no file, fewer than
\* two files for merge, no image, rotations absent, empty or not a serialized
\* mapping.
InvalidInput ==
    \/ req.op \in {"rotate", "updateMetadata", "validate"} /\ ~req.hasFile
    \/ req.op = "merge" /\ Len(req.docs) < 2
    \/ req.op = "imageToPdf" /\ Len(req.docs) = 0
    \/ req.op = "rotate" /\ req.rotations.kind # "object"

\* C25: a request whose required input is missing or invalid is answered with
\* status 400, never a server error, and nothing but the uploads is in the temp
\* directory when it is answered.
C25_InvalidInputIs400 ==
    (Done /\ InvalidInput)
    => /\ res.status = 400
       /\ DOMAIN files \subseteq Uploads


\* The files of the temp directory that are not uploads of the request; the
\* directory docx_out, which the requests share, is no file of any.
Outputs == (DOMAIN files) \ (Uploads \cup {DocxOut})

\* C26: an operation is all-or-nothing on the temp directory: answered with an
\* error it leaves no output file of the request, answered with success it
\* leaves exactly one, under the name of the returned url.
C26_AllOrNothing ==
    (Done /\ res.status # 0)
    => IF res.status = 200 /\ req.op # "validate"
       THEN Outputs = {res.url}
       ELSE Outputs = {}


\* C27: once an operation has produced its artifact and answered, the uploads
\* of the request are gone from the temp directory and the retrieval endpoint
\* answers 404 for their names.
C27_UploadDiscarded ==
    (Done /\ res.status = 200 /\ req.op \notin {"download", "validate"})
    => \A n \in Uploads :
           /\ n \notin DOMAIN files
           /\ ~Retrievable(n)


\* The upload is larger than the target the request names.
ExceedsTarget == TargetGiven /\ JsGt(Num(req.size), TargetNum)

\* C28 as claimed: when no binary is found and the upload exceeds the target,
\* no preset is invoked and the resaved document is returned with the
\* warning, whatever its size.
C28_FallbackReturnsResaved ==
    (NoTool /\ ExceedsTarget)
    => /\ invoked = <<>>
       /\ res = Ok(OutputPath, res.size, req.size, TRUE)
       /\ OutputPath \in DOMAIN files

\* C28, amended: when the three commands, tried in the order gswin64c,
\* gswin32c, gs, all fail and the upload exceeds the target, no preset is
\* invoked and the answer is fixed by the upload alone: a loadable upload is
\* resaved and returned with the warning, whatever the size of the resaved
\* document; an upload that cannot be loaded is answered 500 with no output.
C28_FallbackIgnoresTarget ==
    (NoTool /\ ExceedsTarget)
    => /\ probed = <<"gswin64c", "gswin32c", "gs">>
       /\ invoked = <<>>
       /\ bestPath = NoPath
       /\ IF req.loadable
          THEN /\ OutputPath \in DOMAIN files
               /\ files[OutputPath].data = "resaved"
               /\ res = Ok(OutputPath, files[OutputPath].size, req.size, TRUE)
          ELSE /\ res.status = 500
               /\ OutputPath \notin DOMAIN files

\* C28 witness: fallback mode returned a resaved document that is larger than
\* the target.
C28_Witness ==
    /\ NoTool
    /\ ExceedsTarget
    /\ req.loadable
    /\ res.status = 200
    /\ res.warning
    /\ JsGt(Num(res.size), TargetNum)
    /\ TargetNum = Num(1)
    /\ res.size = 2


\* The indices a token of the pages field stands for: for a range whose
\* bounds both parse, the pages of [start, end] that are pages of the
\* document, ascending; for a page number, that page when the document has
\* it; nothing otherwise.
TokenPages(part, totalPages) ==
    IF Includes(part, "-")
    THEN LET bounds == SplitBy(part, "-")
             start  == ParseInt(Trim(bounds[1]))
             end    == ParseInt(Trim(bounds[2]))
         IN  IF start.k = "num" /\ end.k = "num"
             THEN LET lo == IF start.v < 1 THEN 1 ELSE start.v
                      hi == IF end.v > totalPages THEN totalPages ELSE end.v
                  IN  [k \in 1..(hi - lo + 1) |-> lo + k - 2]
             ELSE <<>>
    ELSE LET pageNum == ParseInt(Trim(part))
         IN  IF pageNum.k = "num" /\ pageNum.v \in 1..totalPages
             THEN <<pageNum.v - 1>>
             ELSE <<>>

\* The indices of the tokens of the pages field, one token after the other.
FieldPages ==
    LET parts == SplitBy(req.pages.text, ",")
        upTo[i \in 0..Len(parts)] ==
            IF i = 0 THEN <<>>
            ELSE upTo[i - 1] \o TokenPages(parts[i], req.pageCount)
    IN  upTo[Len(parts)]

\* A range token of the field whose bounds parse, with start <= end, and
\* reach outside the document.
ReachesOutside(part) ==
    /\ Includes(part, "-")
    /\ LET bounds == SplitBy(part, "-")
           start  == ParseInt(Trim(bounds[1]))
           end    == ParseInt(Trim(bounds[2]))
       IN  /\ start.k = "num" /\ end.k = "num"
           /\ start.v <= end.v
           /\ (start.v < 1 \/ end.v > req.pageCount)

\* C29: in split a range token whose bounds reach outside the document is
\* not dropped: it contributes the pages of [start, end] the document has,
\* ascending, and a range with a bound that is not a number contributes
\* nothing; the pages resolved are the contributions of the tokens in the
\* order of the field.
C29_RangeClipped ==
    (Resolved /\ req.op = "split") => pageIndices = FieldPages

\* C29 witness: split of a 3-page document with "2-10" has resolved the pages
\* 2 and 3.
C29_Witness ==
    /\ Resolved /\ req.op = "split"
    /\ req.pageCount = 3
    /\ req.pages.text = <<"2", "-", "1", "0">>
    /\ ReachesOutside(req.pages.text)
    /\ pageIndices = <<1, 2>>
    /\ res.status = 200


\* pdfToWord has answered a request that carried a file: soffice has ended.
WordDone == req.op = "pdfToWord" /\ Done /\ req.hasFile

\* C30: pdfToWord answers with success exactly when soffice left the expected
\* output file, whether or not soffice reported an error: an output file that
\* exists is never left in docx_out behind an error answer, an answer of
\* success has moved it into the temp directory under the returned name, and
\* without it the answer is the 500 of the conversion failure.
C30_SuccessIffOutputExists ==
    WordDone
    => /\ Len(invoked) = 1
       /\ invoked[1].preset = "soffice"
       /\ invoked[1].state \in {"ok", "failed"}
       /\ ExpectedOutputPath \notin DOMAIN files
       /\ res.status = 200 <=> ExpectedName \in DOMAIN files
       /\ res.status # 200 => res.status = 500
       /\ res.status = 200
          => /\ res.url = ExpectedName
             /\ files[ExpectedName].data = "docx"
             /\ res.size = files[ExpectedName].size
             /\ res.size = invoked[1].size

\* C30 witness: soffice reported an error and left the output file, of size
\* 2; the request was answered with success.
C30_Witness ==
    /\ WordDone
    /\ invoked[1].state = "failed"
    /\ invoked[1].size = 2
    /\ res.status = 200
    /\ res.size = 2
    /\ ExpectedName \in DOMAIN files

====
